---- MODULE Spec2Model ----
(***************************************************************************)
(* QuickPick: deal lifecycle, nearby-deals query and order reservation.    *)
(*                                                                         *)
(* The backend is one Postgres database reached through independent        *)
(* round trips; every round trip is one atomic step of the model and the   *)
(* steps of different handlers interleave freely.  Backend round trips     *)
(* always reach the database (no transport failures); the errors modelled  *)
(* are the ones the database itself returns (no row, CHECK constraint,     *)
(* row-level security, foreign key).  All clocks agree (variable now).     *)
(***************************************************************************)
EXTENDS Integers, Sequences, FiniteSets, Bags, TLC

(***************************************************************************)
(* Bounds of the model.                                                    *)
(***************************************************************************)
MaxDeals == 2
MaxQty == 2
MaxTime == 2
MaxOrders == 3
MaxPending == 2
MaxOtpTime == 3
MaxOtps == 2

Vendors == {"v1", "v2"}
Buyers == {"b1", "b2"}

\* supabase.auth.getUser() of a signed-out client
NoUser == ""

VendorSessions == {1}
SessionVendor == <<"v1">>

BuyerSessions == {1, 2, 3}
SessionBuyer == <<"b1", "b1", "b2">>

DealIds == 1..MaxDeals
NoDeal == 0

(***************************************************************************)
(* Coordinates, stored in units of 1/128 degree.                           *)
(***************************************************************************)
Pt(lat, lon) == [latitude |-> lat, longitude |-> lon]

P_East == Pt(2228, 10047)
P_West == Pt(2228, 10045)
P_North == Pt(2232, 10046)
P_Far == Pt(2235, 10046)
U_Home == Pt(2228, 10046)

ShopPoints == {P_East, P_West, P_North, P_Far}
UserPoints == {U_Home, P_North}
AllPoints == ShopPoints \cup UserPoints

\* points far apart: 8 N 0 E and its antipode, and two points of the equator
G_North8 == Pt(1024, 0)
G_South8 == Pt(0 - 1024, 23040)
G_Origin == Pt(0, 0)
G_Quarter == Pt(0, 11520)

GlobePoints == AllPoints \cup {G_North8, G_South8, G_Origin, G_Quarter}

\* vendor_profile.latitude / longitude of each vendor
VendorLocation == [v \in Vendors |-> IF v = "v1" THEN P_East ELSE P_North]

(***************************************************************************)
(* Binary floating point.  A number is sign * m * 2^e with a significand   *)
(* m of SigBits bits (or m = 0); every operation rounds its exact result   *)
(* to the nearest such number, ties to even, as the IEEE double operations *)
(* of the source do with 53 bits.  NaN is the result without a value:      *)
(* Math.sqrt of a negative number on the client, the error raised by       *)
(* sqrt() in the database.                                                 *)
(***************************************************************************)
SigBits == 14

\* An operator applied to the values of its arguments: each argument is
\* evaluated once, before the operator's body.
Strict1(F(_), x) == CHOOSE r \in {F(v) : v \in {x}} : TRUE

Strict2(F(_, _), x, y) == CHOOSE r \in {F(v[1], v[2]) : v \in {<<x, y>>}} : TRUE

Strict3(F(_, _, _), x, y, z) ==
  CHOOSE r \in {F(v[1], v[2], v[3]) : v \in {<<x, y, z>>}} : TRUE

Strict4(F(_, _, _, _), w, x, y, z) ==
  CHOOSE r \in {F(v[1], v[2], v[3], v[4]) : v \in {<<w, x, y, z>>}} : TRUE

Abs(x) == IF x < 0 THEN 0 - x ELSE x

Sgn(x) == IF x < 0 THEN 0 - 1 ELSE 1

NaN == [s |-> 0, m |-> 0, e |-> 0]

FZero == [s |-> 1, m |-> 0, e |-> 0]

IsNaN(x) == x.s = 0

\* the number of bits of n >= 1
BitLen(n) == CHOOSE k \in 1..30 : 2^(k - 1) <= n /\ n < 2^k

\* sign * (n + d) * 2^e rounded to SigBits bits, where 0 <= d < 1 and
\* sticky tells whether d > 0
FRound(sign, n, e, sticky) ==
  Strict4(LAMBDA sign_, n_, e_, sticky_ :
    IF n_ = 0 THEN FZero
    ELSE Strict1(LAMBDA b :
      IF b <= SigBits
      THEN [s |-> sign_, m |-> n_ * 2^(SigBits - b), e |-> e_ - (SigBits - b)]
      ELSE LET k == b - SigBits
               q == n_ \div 2^k
               r == n_ % 2^k
               half == 2^(k - 1)
               up == r > half \/ (r = half /\ (sticky_ \/ q % 2 = 1))
               q1 == IF up THEN q + 1 ELSE q
           IN IF q1 = 2^SigBits
              THEN [s |-> sign_, m |-> 2^(SigBits - 1), e |-> e_ + k + 1]
              ELSE [s |-> sign_, m |-> q1, e |-> e_ + k],
      BitLen(n_)),
    sign, n, e, sticky)

FromInt(n) == FRound(Sgn(n), Abs(n), 0, FALSE)

FNeg(x) ==
  Strict1(LAMBDA x_ : IF x_.m = 0 THEN x_ ELSE [x_ EXCEPT !.s = 0 - x_.s], x)

FMul(x, y) ==
  Strict2(LAMBDA x_, y_ :
    IF IsNaN(x_) \/ IsNaN(y_) THEN NaN
    ELSE FRound(x_.s * y_.s, x_.m * y_.m, x_.e + y_.e, FALSE),
    x, y)

FAdd(x, y) ==
  Strict2(LAMBDA x_, y_ :
    IF IsNaN(x_) \/ IsNaN(y_) THEN NaN
    ELSE IF x_.m = 0 THEN y_
    ELSE IF y_.m = 0 THEN x_
    ELSE LET hi == IF x_.e >= y_.e THEN x_ ELSE y_
             lo == IF x_.e >= y_.e THEN y_ ELSE x_
             d == hi.e - lo.e
             n == hi.s * hi.m * 2^d + lo.s * lo.m
         IN IF d > SigBits + 1 THEN hi
            ELSE FRound(Sgn(n), Abs(n), lo.e, FALSE),
    x, y)

FSub(x, y) == FAdd(x, FNeg(y))

FDiv(x, y) ==
  Strict2(LAMBDA x_, y_ :
    IF IsNaN(x_) \/ IsNaN(y_) \/ y_.m = 0 THEN NaN
    ELSE LET n == x_.m * 2^(SigBits + 1)
         IN FRound(x_.s * y_.s, n \div y_.m, x_.e - y_.e - (SigBits + 1),
                   n % y_.m # 0),
    x, y)

\* x < y, x <= y and x == y of the source; false when either is NaN
FLt(x, y) ==
  Strict1(LAMBDA d : ~IsNaN(d) /\ d.s = 1 /\ d.m > 0, FSub(y, x))

FLe(x, y) ==
  Strict1(LAMBDA d : ~IsNaN(d) /\ d.s = 1, FSub(y, x))

FEq(x, y) ==
  Strict2(LAMBDA x_, y_ : ~IsNaN(x_) /\ ~IsNaN(y_) /\ x_ = y_, x, y)

\* integer square root, by bisection on lo..hi
RECURSIVE SqrtIn(_, _, _)
SqrtIn(n, lo, hi) ==
  Strict3(LAMBDA n_, lo_, hi_ :
    IF lo_ >= hi_ THEN lo_
    ELSE Strict1(LAMBDA mid :
           IF mid * mid <= n_ THEN SqrtIn(n_, mid, hi_)
           ELSE SqrtIn(n_, lo_, mid - 1),
           (lo_ + hi_ + 1) \div 2),
    n, lo, hi)

\* sqrt(x), correctly rounded; without a value for x < 0
Sqrt(x) ==
  Strict1(LAMBDA x_ :
    IF IsNaN(x_) \/ x_.s < 0 THEN NaN
    ELSE IF x_.m = 0 THEN FZero
    ELSE LET j == IF (x_.e - SigBits) % 2 = 0 THEN SigBits ELSE SigBits - 1
             n == x_.m * 2^j
         IN Strict1(LAMBDA r :
              FRound(1, IF n > r * r + r THEN r + 1 ELSE r, (x_.e - j) \div 2,
                     FALSE),
              SqrtIn(n, 0, 2^SigBits)),
    x)

(***************************************************************************)
(* sin and cos on [-PI/2, PI/2], evaluated in fixed point with FixBits     *)
(* fraction bits and rounded once, so that the result is the floating      *)
(* point number nearest to the true value.                                 *)
(***************************************************************************)
FixBits == 28

FixOne == 2^FixBits

\* a * b / 2^FixBits for 0 <= a, b < 2^30, by halves of 14 bits
FixMul(a, b) ==
  Strict2(LAMBDA a_, b_ :
    LET a1 == a_ \div 2^14
        a0 == a_ % 2^14
        b1 == b_ \div 2^14
        b0 == b_ % 2^14
    IN a1 * b1 + (a1 * b0 + a0 * b1) \div 2^14,
    a, b)

\* |x| in fixed point, for |x| < 2
ToFix(x) ==
  IF x.m = 0 THEN 0
  ELSE IF x.e + FixBits >= 0 THEN x.m * 2^(x.e + FixBits)
  ELSE IF x.e + FixBits < 0 - 29 THEN 0
  ELSE x.m \div 2^(0 - (x.e + FixBits))

\* x - x^3/3! + x^5/5! - ... + x^13/13!
FixSin(x) ==
  Strict2(LAMBDA x_, x2 :
    LET t6 == FixOne - x2 \div 156
        t5 == FixOne - FixMul(x2 \div 110, t6)
        t4 == FixOne - FixMul(x2 \div 72, t5)
        t3 == FixOne - FixMul(x2 \div 42, t4)
        t2 == FixOne - FixMul(x2 \div 20, t3)
        t1 == FixOne - FixMul(x2 \div 6, t2)
    IN FixMul(x_, t1),
    x, FixMul(x, x))

\* 1 - x^2/2! + x^4/4! - ... + x^12/12!
FixCos(x) ==
  Strict1(LAMBDA x2 :
    LET t6 == FixOne - x2 \div 132
        t5 == FixOne - FixMul(x2 \div 90, t6)
        t4 == FixOne - FixMul(x2 \div 56, t5)
        t3 == FixOne - FixMul(x2 \div 30, t4)
        t2 == FixOne - FixMul(x2 \div 12, t3)
    IN FixOne - FixMul(x2 \div 2, t2),
    FixMul(x, x))

\* sin(x): odd in x; x - x^3/6 in floating point for small |x|
Sin(x) ==
  Strict1(LAMBDA x_ :
    IF IsNaN(x_) THEN NaN
    ELSE IF x_.m = 0 THEN FZero
    ELSE IF x_.e + SigBits <= 0 - 6
    THEN FSub(x_, FDiv(FMul(FMul(x_, x_), x_), FromInt(6)))
    ELSE FRound(x_.s, FixSin(ToFix(x_)), 0 - FixBits, TRUE),
    x)

\* cos(x): even in x
Cos(x) ==
  Strict1(LAMBDA x_ :
    IF IsNaN(x_) THEN NaN
    ELSE Strict1(LAMBDA c : FRound(Sgn(c), Abs(c), 0 - FixBits, c # FixOne),
                 FixCos(ToFix(x_))),
    x)

\* Math.PI / 180 and Math.PI / 2 rounded to SigBits bits
PiOver180 == [s |-> 1, m |-> 9151, e |-> 0 - 19]

HalfPi == [s |-> 1, m |-> 12868, e |-> 0 - 13]

\* atan(t) for 0 <= t <= 1: two halvings of the angle, then
\* t - t^3/3 + t^5/5 - t^7/7 + t^9/9
Halve(t) ==
  Strict1(LAMBDA t_ :
    FDiv(t_, FAdd(FromInt(1), Sqrt(FAdd(FromInt(1), FMul(t_, t_))))), t)

Atan(t) ==
  Strict1(LAMBDA u :
    Strict1(LAMBDA u2 :
      LET p4 == FSub(FDiv(FromInt(1), FromInt(7)), FDiv(u2, FromInt(9)))
          p3 == FSub(FDiv(FromInt(1), FromInt(5)), FMul(u2, p4))
          p2 == FSub(FDiv(FromInt(1), FromInt(3)), FMul(u2, p3))
          p1 == FSub(FromInt(1), FMul(u2, p2))
      IN FMul(FromInt(4), FMul(u, p1)),
      FMul(u, u)),
    Halve(Halve(t)))

\* atan2(y, x) for y >= 0 and x >= 0
Atan2(y, x) ==
  Strict2(LAMBDA y_, x_ :
    IF IsNaN(y_) \/ IsNaN(x_) THEN NaN
    ELSE IF y_.m = 0 THEN FZero
    ELSE IF x_.m = 0 THEN HalfPi
    ELSE IF FLe(y_, x_) THEN Atan(FDiv(y_, x_))
    ELSE FSub(HalfPi, Atan(FDiv(x_, y_))),
    y, x)

(***************************************************************************)
(* Haversine distance, in kilometres.                                      *)
(***************************************************************************)
EarthRadiusKm == 6371

\* the number stored for a coordinate of n / 128 degrees
Coord(n) == FDiv(FromInt(n), FromInt(128))

\* x / 2
Half(x) == IF x.m = 0 THEN x ELSE [x EXCEPT !.e = @ - 1]

\* LocationService.toRadians, radians(): degrees * (PI / 180)
toRadians(degrees) == FMul(degrees, PiOver180)

\* the haversine term a of both functions
HaversineA(lat1, lat2, dLat, dLon) ==
  Strict4(LAMBDA lat1_, lat2_, sLat, sLon :
    FAdd(FMul(sLat, sLat),
         FMul(FMul(FMul(Cos(toRadians(lat1_)), Cos(toRadians(lat2_))), sLon),
              sLon)),
    lat1, lat2, Sin(Half(dLat)), Sin(Half(dLon)))

\* LocationService.calculateDistance(lat1, lon1, lat2, lon2)
calculateDistance(lat1, lon1, lat2, lon2) ==
  Strict4(LAMBDA lat1_, lon1_, lat2_, lon2_ :
    LET R == FromInt(EarthRadiusKm)
        dLat == toRadians(FSub(lat2_, lat1_))
        dLon == toRadians(FSub(lon2_, lon1_))
    IN Strict1(LAMBDA a :
         FMul(R, FMul(FromInt(2),
                      Atan2(Sqrt(a), Sqrt(FSub(FromInt(1), a))))),
         HaversineA(lat1_, lat2_, dLat, dLon)),
    lat1, lon1, lat2, lon2)

\* calculate_distance(lat1, lon1, lat2, lon2) of the database
calculate_distance(lat1, lon1, lat2, lon2) ==
  Strict4(LAMBDA lat1_, lon1_, lat2_, lon2_ :
    LET R == FromInt(EarthRadiusKm)
        dLat == toRadians(FSub(lat2_, lat1_))
        dLon == toRadians(FSub(lon2_, lon1_))
    IN Strict1(LAMBDA a :
         FMul(R, FMul(FromInt(2),
                      Atan2(Sqrt(a), Sqrt(FSub(FromInt(1), a))))),
         HaversineA(lat1_, lat2_, dLat, dLon)),
    lat1, lon1, lat2, lon2)

\* calculate_distance and calculateDistance on every pair of points in use,
\* computed once
DistanceTable ==
  [p \in GlobePoints |-> [q \in GlobePoints |->
     calculate_distance(Coord(p.latitude), Coord(p.longitude),
                        Coord(q.latitude), Coord(q.longitude))]]

ClientDistanceTable ==
  [p \in GlobePoints |-> [q \in GlobePoints |->
     calculateDistance(Coord(p.latitude), Coord(p.longitude),
                       Coord(q.latitude), Coord(q.longitude))]]

Distance(p, q) == DistanceTable[p][q]

VARIABLES now, deals, dealSeq, orders, vend, buy, overlap, nearby, last,
          call, otps, otpc, ret, feed, bscreen, dist

vars == <<now, deals, dealSeq, orders, vend, buy, overlap, nearby, last,
          call, otps, otpc, ret, feed, bscreen, dist>>


(***************************************************************************)
(* The deals table: rows, CHECK constraints and row-level security.        *)
(***************************************************************************)
Statuses == {"active", "sold", "expired"}

\* the range rule without its upper bound
QuantityInRange_NoUpper(q, quantity) == q >= 0

\* "remaining quantity must be between 0 and quantity": the range rule
\* that the edit dialog, updateDealQuantity and the table constraint
\* remaining_quantity_check each evaluate
QuantityInRange(q, quantity) == q >= 0 /\ q <= quantity

\* CHECK (remaining_quantity >= 0 AND remaining_quantity <= quantity)
remaining_quantity_check(row) ==
  QuantityInRange(row.remaining_quantity, row.quantity)

\* the CHECK constraints of the deals table
DealsRowOK(row) ==
  /\ row.quantity > 0
  /\ row.status \in Statuses
  /\ remaining_quantity_check(row)

\* the policies with USING (true)
VendorOwns_Anyone(uid, row) == TRUE

\* policies "Vendors can insert / update / delete own deals"
VendorOwns(uid, row) == uid = row.vendor_id

Resp(ok, message, table) == [ok |-> ok, message |-> message, table |-> table]

\* the 'deals' channel (postgres_changes, event '*'): feed maps every
\* subscribed screen to the number of change events not yet delivered to it
CanPublish(fd) == \A sc \in DOMAIN fd : fd[sc] < MaxPending

Publish(fd, wrote) ==
  IF wrote THEN [sc \in DOMAIN fd |-> fd[sc] + 1] ELSE fd

\* one change event reaches the callback the screen subscribed
Deliver(fd, sc) == [fd EXCEPT ![sc] = @ - 1]

\* the inserted row with no stock left
NewDealRow_NoStock(uid, id, dealData) ==
  [vendor_id |-> uid,
   quantity |-> dealData.quantity,
   remaining_quantity |-> 0,
   status |-> "sold",
   expiry_time |-> dealData.expiry_time,
   created_at |-> id,
   latitude |-> dealData.latitude,
   longitude |-> dealData.longitude]

\* DealService.createDeal: the row inserted for dealData by user uid.
\* created_at (DEFAULT now()) is kept as the position in insertion order.
NewDealRow(uid, id, dealData) ==
  [vendor_id |-> uid,
   quantity |-> dealData.quantity,
   remaining_quantity |-> dealData.quantity,
   status |-> "active",
   expiry_time |-> dealData.expiry_time,
   created_at |-> id,
   latitude |-> dealData.latitude,
   longitude |-> dealData.longitude]

createDeal(tbl, uid, id, dealData) ==
  LET row == NewDealRow(uid, id, dealData)
  IN IF VendorOwns(uid, row) /\ DealsRowOK(row)
     THEN Resp(TRUE, "Deal created successfully!", (id :> row) @@ tbl)
     ELSE Resp(FALSE, "Failed to create deal", tbl)

\* DealService.updateDealStatus
updateDealStatus(tbl, uid, dealId, status) ==
  IF uid = NoUser THEN Resp(FALSE, "User not authenticated", tbl)
  ELSE IF dealId \in DOMAIN tbl /\ tbl[dealId].vendor_id = uid
     /\ VendorOwns(uid, tbl[dealId])
     /\ DealsRowOK([tbl[dealId] EXCEPT !.status = status])
  THEN Resp(TRUE, "Deal status updated successfully",
            [tbl EXCEPT ![dealId].status = status])
  ELSE Resp(FALSE, "Failed to update deal status", tbl)

\* restriction of a table to the rows that survive a delete
Without(tbl, dealId) == [d \in (DOMAIN tbl) \ {dealId} |-> tbl[d]]

\* DealService.deleteDeal: deleting no row is not an error
deleteDeal(tbl, uid, dealId) ==
  IF dealId \in DOMAIN tbl /\ VendorOwns(uid, tbl[dealId])
  THEN Resp(TRUE, "Deal deleted successfully", Without(tbl, dealId))
  ELSE Resp(TRUE, "Deal deleted successfully", tbl)

\* orders.deal_id REFERENCES deals(id) ON DELETE CASCADE
CascadeOrders(ords, tbl) ==
  [o \in {x \in DOMAIN ords : x.deal_id \in DOMAIN tbl} |-> ords[o]]

\* the status rule without the sold case
QuantityStatus_NeverSold(remainingQuantity) == "active"

\* status: remainingQuantity === 0 ? 'sold' : 'active'
QuantityStatus(remainingQuantity) ==
  IF remainingQuantity = 0 THEN "sold" ELSE "active"

\* DealService.updateDealQuantity, first round trip: fetch and validate
updateDealQuantityFetch(tbl, uid, dealId, remainingQuantity) ==
  IF uid = NoUser THEN Resp(FALSE, "User not authenticated", tbl)
  ELSE IF dealId \notin DOMAIN tbl
  THEN Resp(FALSE, "Deal not found", tbl)
  ELSE IF tbl[dealId].vendor_id # uid
  THEN Resp(FALSE, "You can only update your own deals", tbl)
  ELSE IF ~QuantityInRange(remainingQuantity, tbl[dealId].quantity)
  THEN Resp(FALSE, "Remaining quantity must be between 0 and quantity", tbl)
  ELSE Resp(TRUE, "validated", tbl)

\* DealService.updateDealQuantity, second round trip: the update
updateDealQuantityWrite(tbl, uid, dealId, remainingQuantity) ==
  LET row == [tbl[dealId] EXCEPT
                !.remaining_quantity = remainingQuantity,
                !.status = QuantityStatus(remainingQuantity)]
  IN IF dealId \in DOMAIN tbl /\ VendorOwns(uid, tbl[dealId])
        /\ DealsRowOK(row)
     THEN Resp(TRUE, "Deal quantity updated successfully!",
               [tbl EXCEPT ![dealId] = row])
     ELSE Resp(FALSE, "Failed to update deal quantity", tbl)

\* .order('created_at', { ascending: false }): the ids of S, newest first
RECURSIVE NewestFirst(_, _)
NewestFirst(tbl, S) ==
  IF S = {} THEN <<>>
  ELSE LET d == CHOOSE x \in S : \A y \in S :
                  \/ tbl[x].created_at > tbl[y].created_at
                  \/ (tbl[x].created_at = tbl[y].created_at /\ x >= y)
       IN <<d>> \o NewestFirst(tbl, S \ {d})

\* DealService.getVendorDeals: the ids of the caller's deals
getVendorDeals(tbl, uid) ==
  NewestFirst(tbl, {d \in DOMAIN tbl : tbl[d].vendor_id = uid})

\* the rows of deals a reader may select: its own, and under the policy
\* "Anyone can view active deals" the active ones that have not expired
DealVisible(uid, row, t) ==
  \/ uid = row.vendor_id
  \/ (row.status = "active" /\ row.expiry_time > t)

\* DealService.getDealById
getDealById(tbl, uid, dealId, t) ==
  IF dealId \in DOMAIN tbl /\ DealVisible(uid, tbl[dealId], t)
  THEN Resp(TRUE, "Deal loaded successfully", tbl)
  ELSE Resp(FALSE, "Deal not found", tbl)

(***************************************************************************)
(* Vendor screen state (one per device).                                   *)
(***************************************************************************)
Snap(id, row) == [id |-> id, quantity |-> row.quantity]

NoSnap == [id |-> NoDeal, quantity |-> 0]

VendInit ==
  [list |-> {}, lpc |-> "idle", queue |-> <<>>, active |-> {}, swept |-> {},
   dlg |-> NoSnap, dpc |-> "closed", dq |-> 0]

NoOp == [op |-> "none", ok |-> TRUE, message |-> "", user |-> "",
         deal |-> NoDeal, q |-> 0, ids |-> {}]

Done(op, r, uid, dealId, q, ids) ==
  [op |-> op, ok |-> r.ok, message |-> r.message, user |-> uid,
   deal |-> dealId, q |-> q, ids |-> ids]

\* the clock advances
Tick ==
  /\ now < MaxTime
  /\ now' = now + 1
  /\ last' = NoOp
  /\ UNCHANGED <<deals, dealSeq, orders, vend, buy, overlap, nearby>>
  /\ UNCHANGED <<call, otps, otpc, ret, feed, bscreen, dist>>

\* amounts of money are counted in millionths of a rupee
PriceUnit == 1000 * 1000

\* PostDealScreen.validateForm
validateForm(formData) ==
  /\ ~(formData.quantity < 1)
  /\ ~(formData.discount_percent < 0 \/ formData.discount_percent > 100)
  /\ ~(formData.original_price <= 0)
  /\ ~(formData.expiry_time <= now)

\* PostDealScreen.handleSubmit
HandleSubmit(s, quantity, expiry) ==
  LET uid == SessionVendor[s]
      formData == [quantity |-> quantity, expiry_time |-> expiry,
                   discount_percent |-> 10, original_price |-> 10 * PriceUnit]
      dealPayload == [quantity |-> quantity, expiry_time |-> expiry,
                      latitude |-> VendorLocation[uid].latitude,
                      longitude |-> VendorLocation[uid].longitude]
      r == createDeal(deals, uid, dealSeq + 1, dealPayload)
  IN /\ dealSeq < MaxDeals
     /\ IF validateForm(formData)
        THEN /\ deals' = r.table
             /\ dealSeq' = IF r.ok THEN dealSeq + 1 ELSE dealSeq
             /\ last' = Done("createDeal", r, uid, dealSeq + 1, quantity, {})
        ELSE /\ UNCHANGED <<deals, dealSeq>>
             /\ last' = Done("createDeal", Resp(FALSE, "form", deals), uid,
                             NoDeal, quantity, {})
     /\ UNCHANGED <<now, orders, vend, buy, overlap, nearby>>
     /\ CanPublish(feed)
     /\ feed' = Publish(feed, validateForm(formData) /\ r.ok)
     /\ UNCHANGED <<call, otps, otpc, ret, bscreen, dist>>

\* VendorScreen.loadDeals up to its first await after getVendorDeals
LoadDealsStart(s) ==
  LET uid == SessionVendor[s]
      resp == getVendorDeals(deals, uid)
      isPast(d) == deals[d].status = "active" /\ deals[d].expiry_time < now
      queue == SelectSeq(resp, isPast)
      activeDeals == {Snap(d, deals[d]) : d \in
                        {x \in DOMAIN deals : /\ deals[x].vendor_id = uid
                                              /\ deals[x].status = "active"
                                              /\ ~isPast(x)}}
  IN /\ vend[s].lpc = "idle"
     /\ IF queue = <<>>
        THEN /\ vend' = [vend EXCEPT ![s].list = activeDeals]
             /\ last' = Done("loadDeals", Resp(TRUE, "", deals), uid, NoDeal, 0, {})
        ELSE /\ vend' = [vend EXCEPT ![s].lpc = "sweeping",
                                     ![s].queue = queue,
                                     ![s].active = activeDeals,
                                     ![s].swept = {queue[i] : i \in 1..Len(queue)}]
             /\ last' = NoOp
     /\ UNCHANGED <<now, deals, dealSeq, orders, buy, overlap, nearby>>

\* loadDeals called by the mount effect or by handleRefresh
LoadDealsFetch(s) ==
  /\ LoadDealsStart(s)
  /\ UNCHANGED <<call, otps, otpc, ret, feed, bscreen, dist>>

\* the callback VendorScreen subscribed to the deals channel: loadDeals()
OnDealsChangeVendor(s) ==
  /\ "vendor" \in DOMAIN feed
  /\ feed["vendor"] > 0
  /\ LoadDealsStart(s)
  /\ feed' = Deliver(feed, "vendor")
  /\ UNCHANGED <<call, otps, otpc, ret, bscreen, dist>>

\* VendorScreen.loadDeals: one updateDealStatus(deal.id, 'expired') of the
\* sweep, and the end of the load after the last one
LoadDealsSweep(s) ==
  LET uid == SessionVendor[s]
      r == updateDealStatus(deals, uid, Head(vend[s].queue), "expired")
      rest == Tail(vend[s].queue)
  IN /\ vend[s].lpc = "sweeping"
     /\ deals' = r.table
     /\ IF rest = <<>>
        THEN /\ vend' = [vend EXCEPT ![s].lpc = "idle", ![s].queue = <<>>,
                                     ![s].list = vend[s].active,
                                     ![s].active = {}, ![s].swept = {}]
             /\ last' = Done("loadDeals", Resp(TRUE, "", deals), uid, NoDeal, 0,
                             vend[s].swept)
        ELSE /\ vend' = [vend EXCEPT ![s].queue = rest]
             /\ last' = NoOp
     /\ UNCHANGED <<now, dealSeq, orders, buy, overlap, nearby>>
     /\ CanPublish(feed)
     /\ feed' = Publish(feed, r.ok)
     /\ UNCHANGED <<call, otps, otpc, ret, bscreen, dist>>

\* VendorScreen.handleMarkAsSold, confirmed
HandleMarkAsSold(s, snap) ==
  LET uid == SessionVendor[s]
      r == updateDealStatus(deals, uid, snap.id, "sold")
  IN /\ snap \in vend[s].list
     /\ vend[s].dpc = "closed"
     /\ deals' = r.table
     /\ last' = Done("markAsSold", r, uid, snap.id, 0, {})
     /\ UNCHANGED <<now, dealSeq, orders, vend, buy, overlap, nearby>>
     /\ CanPublish(feed)
     /\ feed' = Publish(feed, r.ok)
     /\ UNCHANGED <<call, otps, otpc, ret, bscreen, dist>>

\* VendorScreen.handleDeleteDeal, confirmed
HandleDeleteDeal(s, snap) ==
  LET uid == SessionVendor[s]
      r == deleteDeal(deals, uid, snap.id)
  IN /\ snap \in vend[s].list
     /\ vend[s].dpc = "closed"
     /\ deals' = r.table
     /\ orders' = CascadeOrders(orders, r.table)
     /\ last' = Done("deleteDeal", r, uid, snap.id, 0, {})
     /\ UNCHANGED <<now, dealSeq, vend, buy, overlap, nearby>>
     /\ CanPublish(feed)
     /\ feed' = Publish(feed, r.table # deals)
     /\ UNCHANGED <<call, otps, otpc, ret, bscreen, dist>>

\* VendorScreen.handleEditQuantity
HandleEditQuantity(s, snap) ==
  /\ snap \in vend[s].list
  /\ vend[s].dpc = "closed"
  /\ vend' = [vend EXCEPT ![s].dlg = snap, ![s].dpc = "open"]
  /\ last' = NoOp
  /\ UNCHANGED <<now, deals, dealSeq, orders, buy, overlap, nearby>>
  /\ UNCHANGED <<call, otps, otpc, ret, feed, bscreen, dist>>

\* VendorScreen.handleDialogCancel
HandleDialogCancel(s) ==
  /\ vend[s].dpc = "open"
  /\ vend' = [vend EXCEPT ![s].dlg = NoSnap, ![s].dpc = "closed", ![s].dq = 0]
  /\ last' = NoOp
  /\ UNCHANGED <<now, deals, dealSeq, orders, buy, overlap, nearby>>
  /\ UNCHANGED <<call, otps, otpc, ret, feed, bscreen, dist>>

\* VendorScreen.handleDialogConfirm up to the fetch of updateDealQuantity
HandleDialogConfirm(s, quantity) ==
  LET uid == SessionVendor[s]
      dialogDeal == vend[s].dlg
      r == updateDealQuantityFetch(deals, uid, dialogDeal.id, quantity)
  IN /\ vend[s].dpc = "open"
     /\ IF ~QuantityInRange(quantity, dialogDeal.quantity)
        THEN /\ last' = Done("updateDealQuantity", Resp(FALSE, "dialog", deals),
                             uid, dialogDeal.id, quantity, {})
             /\ vend' = vend
        ELSE IF ~r.ok
        THEN /\ last' = Done("updateDealQuantity", r, uid, dialogDeal.id,
                             quantity, {})
             /\ vend' = vend
        ELSE /\ last' = NoOp
             /\ vend' = [vend EXCEPT ![s].dpc = "updating", ![s].dq = quantity]
     /\ UNCHANGED <<now, deals, dealSeq, orders, buy, overlap, nearby>>
     /\ UNCHANGED <<call, otps, otpc, ret, feed, bscreen, dist>>

\* the update of updateDealQuantity and the rest of handleDialogConfirm
UpdateDealQuantityWrite(s) ==
  LET uid == SessionVendor[s]
      dialogDeal == vend[s].dlg
      r == updateDealQuantityWrite(deals, uid, dialogDeal.id, vend[s].dq)
  IN /\ vend[s].dpc = "updating"
     /\ deals' = r.table
     /\ vend' = IF r.ok
                THEN [vend EXCEPT ![s].dlg = NoSnap, ![s].dpc = "closed",
                                  ![s].dq = 0]
                ELSE [vend EXCEPT ![s].dpc = "open", ![s].dq = 0]
     /\ last' = Done("updateDealQuantity", r, uid, dialogDeal.id, vend[s].dq, {})
     /\ UNCHANGED <<now, dealSeq, orders, buy, overlap, nearby>>
     /\ CanPublish(feed)
     /\ feed' = Publish(feed, r.ok)
     /\ UNCHANGED <<call, otps, otpc, ret, bscreen, dist>>

(***************************************************************************)
(* The deal operations called directly, by any client: a signed-in vendor  *)
(* or a signed-out client, on any deal.  call is the one updateDealQuantity *)
(* that is between its two round trips.                                    *)
(***************************************************************************)
Callers == Vendors \cup {NoUser}

NoCall == [pc |-> "idle", user |-> NoUser, deal |-> NoDeal, q |-> 0]

\* DealService.updateDealStatus(dealId, status) called by uid
CallUpdateDealStatus(uid, dealId, status) ==
  LET r == updateDealStatus(deals, uid, dealId, status)
  IN /\ deals' = r.table
     /\ last' = Done("updateDealStatus", r, uid, dealId, 0, {})
     /\ CanPublish(feed)
     /\ feed' = Publish(feed, r.ok)
     /\ UNCHANGED <<now, dealSeq, orders, vend, buy, overlap, nearby>>
     /\ UNCHANGED <<call, otps, otpc, ret, bscreen, dist>>

\* DealService.deleteDeal(dealId) called by uid
CallDeleteDeal(uid, dealId) ==
  LET r == deleteDeal(deals, uid, dealId)
  IN /\ deals' = r.table
     /\ orders' = CascadeOrders(orders, r.table)
     /\ last' = Done("deleteDeal", r, uid, dealId, 0, {})
     /\ CanPublish(feed)
     /\ feed' = Publish(feed, r.table # deals)
     /\ UNCHANGED <<now, dealSeq, vend, buy, overlap, nearby>>
     /\ UNCHANGED <<call, otps, otpc, ret, bscreen, dist>>

\* DealService.updateDealQuantity(dealId, remainingQuantity) called by uid,
\* up to the answer of its fetch
CallUpdateDealQuantity(uid, dealId, remainingQuantity) ==
  LET r == updateDealQuantityFetch(deals, uid, dealId, remainingQuantity)
  IN /\ call.pc = "idle"
     /\ IF r.ok
        THEN /\ call' = [pc |-> "write", user |-> uid, deal |-> dealId,
                         q |-> remainingQuantity]
             /\ last' = NoOp
        ELSE /\ call' = call
             /\ last' = Done("updateDealQuantity", r, uid, dealId,
                             remainingQuantity, {})
     /\ UNCHANGED <<now, deals, dealSeq, orders, vend, buy, overlap, nearby>>
     /\ UNCHANGED <<otps, otpc, ret, feed, bscreen, dist>>

\* the update of that call and its answer
CallUpdateDealQuantityWrite ==
  LET r == updateDealQuantityWrite(deals, call.user, call.deal, call.q)
  IN /\ call.pc = "write"
     /\ deals' = r.table
     /\ call' = NoCall
     /\ last' = Done("updateDealQuantity", r, call.user, call.deal, call.q, {})
     /\ CanPublish(feed)
     /\ feed' = Publish(feed, r.ok)
     /\ UNCHANGED <<now, dealSeq, orders, vend, buy, overlap, nearby>>
     /\ UNCHANGED <<otps, otpc, ret, bscreen, dist>>


(***************************************************************************)
(* What a service call hands back to its caller.  A returned JavaScript    *)
(* value is kept by its kind and, for an object, its property names.       *)
(***************************************************************************)
JsObject(keys) == [kind |-> "object", keys |-> keys]

JsNull == [kind |-> "null", keys |-> {}]

NoRet == [op |-> "none", arg |-> "", value |-> JsNull]

\* DealService.getVendorProfileById(vendorId): every vendor has a
\* vendor_profile row and a users row, nobody else has a vendor_profile row
getVendorProfileById(vendorId) ==
  IF vendorId \notin DOMAIN VendorLocation
  THEN JsObject({"success", "message"})
  ELSE IF vendorId \notin Vendors \cup Buyers
  THEN JsObject({"success", "message"})
  ELSE JsObject({"success", "vendor"})

\* AuthService.getCurrentUser() of a client whose session user is uid
getCurrentUser(uid) ==
  IF uid = NoUser THEN JsNull ELSE JsObject({"id", "email", "profile"})

\* DealDetailsScreen asks for the profile of a deal's vendor
CallGetVendorProfileById(vendorId) ==
  /\ ret' = [op |-> "getVendorProfileById", arg |-> vendorId,
             value |-> getVendorProfileById(vendorId)]
  /\ UNCHANGED <<now, deals, dealSeq, orders, vend, buy, overlap, nearby, last>>
  /\ UNCHANGED <<call, otps, otpc, feed, bscreen, dist>>

\* AuthContext asks for the current user
CallGetCurrentUser(uid) ==
  /\ ret' = [op |-> "getCurrentUser", arg |-> uid,
             value |-> getCurrentUser(uid)]
  /\ UNCHANGED <<now, deals, dealSeq, orders, vend, buy, overlap, nearby, last>>
  /\ UNCHANGED <<call, otps, otpc, feed, bscreen, dist>>

(***************************************************************************)
(* Nearby deals.  The client calls the remote procedure get_nearby_deals   *)
(* with the arguments user_latitude, user_longitude and radius_meters; the *)
(* distance, computed in kilometres, is taken to metres for the comparison *)
(* with that radius.                                                       *)
(***************************************************************************)
DefaultRadius == 5

RadiusChoices == {1, DefaultRadius}

NoNearby == [ok |-> FALSE, user |-> U_Home, radius |-> 0, t |-> 0, rows |-> <<>>]

\* the WHERE clause without the expiry condition
NearbyWhere_NoExpiry(row, user_lat, user_lon, radius_m, t) ==
  /\ row.status = "active"
  /\ FLe(FMul(Distance(Pt(user_lat, user_lon), Pt(row.latitude, row.longitude)),
              FromInt(1000)),
         FromInt(radius_m))

\* WHERE d.status = 'active' AND d.expiry_time > NOW()
\*   AND calculate_distance(user, d) <= radius
NearbyWhere(row, user_lat, user_lon, radius_m, t) ==
  /\ row.status = "active"
  /\ row.expiry_time > t
  /\ FLe(FMul(Distance(Pt(user_lat, user_lon), Pt(row.latitude, row.longitude)),
              FromInt(1000)),
         FromInt(radius_m))

\* ORDER BY distance ASC, d.created_at ASC
NearbyOrderBefore_OldestFirst(r1, r2) ==
  \/ FLt(r1.distance, r2.distance)
  \/ (r1.distance = r2.distance /\ r1.created_at <= r2.created_at)

\* ORDER BY distance ASC, d.created_at DESC: r1 may come before r2
NearbyOrderBefore(r1, r2) ==
  \/ FLt(r1.distance, r2.distance)
  \/ (r1.distance = r2.distance /\ r1.created_at >= r2.created_at)

\* the rows of S in the order of ORDER BY
RECURSIVE OrderRowsBy(_)
OrderRowsBy(S) ==
  IF S = {} THEN <<>>
  ELSE LET r == CHOOSE x \in S : \A y \in S : NearbyOrderBefore(x, y)
       IN <<r>> \o OrderRowsBy(S \ {r})

\* the row the procedure returns for deal d
NearbyRow(tbl, d, user_lat, user_lon) ==
  [id |-> d,
   vendor_id |-> tbl[d].vendor_id,
   quantity |-> tbl[d].quantity,
   remaining_quantity |-> tbl[d].remaining_quantity,
   status |-> tbl[d].status,
   expiry_time |-> tbl[d].expiry_time,
   created_at |-> tbl[d].created_at,
   latitude |-> tbl[d].latitude,
   longitude |-> tbl[d].longitude,
   distance |-> Distance(Pt(user_lat, user_lon),
                         Pt(tbl[d].latitude, tbl[d].longitude))]

\* the remote procedure as the client calls it
get_nearby_deals(tbl, user_latitude, user_longitude, radius_meters, t) ==
  OrderRowsBy({NearbyRow(tbl, d, user_latitude, user_longitude) : d \in
                 {x \in DOMAIN tbl :
                    NearbyWhere(tbl[x], user_latitude, user_longitude,
                                radius_meters, t)}})

\* the filter comparing with a status the table never holds
IsActiveDeal_WrongCase(deal) == deal.status = "Active"

\* (data || []).filter((deal) => deal.status === 'active')
IsActiveDeal(deal) == deal.status = "active"

\* a || b || 0 on numbers
OrElse(a, b) == IF a # 0 THEN a ELSE b

\* the Deal object the client builds from a returned row
MapDeal(deal) ==
  [id |-> deal.id,
   vendor_id |-> deal.vendor_id,
   quantity |-> deal.quantity,
   remaining_quantity |-> OrElse(deal.remaining_quantity, OrElse(deal.quantity, 0)),
   status |-> deal.status,
   expiry_time |-> deal.expiry_time,
   created_at |-> deal.created_at,
   latitude |-> deal.latitude,
   longitude |-> deal.longitude,
   distance_km |-> deal.distance]

RECURSIVE MapSeq(_)
MapSeq(sq) == IF sq = <<>> THEN <<>> ELSE <<MapDeal(Head(sq))>> \o MapSeq(Tail(sq))

\* DealService.getNearbyDeals(userLocation, radius)
getNearbyDeals(tbl, userLocation, radius, t) ==
  Strict1(LAMBDA data :
    Strict1(LAMBDA activeDeals :
      [ok |-> TRUE, user |-> userLocation, radius |-> radius, t |-> t,
       rows |-> MapSeq(activeDeals)],
      SelectSeq(data, IsActiveDeal)),
    get_nearby_deals(tbl, userLocation.latitude, userLocation.longitude,
                     radius * 1000, t))

\* BuyerScreen.loadDeals: the query and setDeals(response.deals)
GetNearbyDeals(userLocation, radius) ==
  /\ nearby' = getNearbyDeals(deals, userLocation, radius, now)
  /\ last' = NoOp
  /\ UNCHANGED <<now, deals, dealSeq, orders, vend, buy, overlap>>
  /\ UNCHANGED <<call, otps, otpc, ret, feed, bscreen, dist>>

(***************************************************************************)
(* BuyerScreen: the location, the list, and the callback subscribed to the *)
(* deals channel by the mount effect.                                      *)
(***************************************************************************)

\* useState<LocationCoords | null>(null)
NoLocation == Pt(0 - 1, 0 - 1)

\* the screen after its first render and mount effect: the subscribed
\* callback holds the loadDeals of that render, whose userLocation is null,
\* and the device location has been asked for
\* saved is the location of the buyer's buyer_profile row, queried the
\* location of the last getNearbyDeals call the screen has issued
BuyerScreenInit ==
  [userLocation |-> NoLocation, captured |-> NoLocation, locating |-> TRUE,
   deals |-> <<>>, saved |-> NoLocation, profileLocation |-> NoLocation,
   queried |-> NoLocation]

\* BuyerScreen.loadDeals(location) of a render whose userLocation is
\* closureLocation
loadDeals(scr, closureLocation, location, tbl, t) ==
  Strict1(LAMBDA coords :
    IF coords = NoLocation THEN scr
    ELSE Strict1(LAMBDA response :
           IF response.ok
           THEN [scr EXCEPT !.deals = response.rows, !.queried = coords]
           ELSE [scr EXCEPT !.queried = coords],
           getNearbyDeals(tbl, coords, DefaultRadius, t)),
    IF location # NoLocation THEN location ELSE closureLocation)

\* BuyerScreen.getCurrentLocationAndLoadDeals: the device answers coords, or
\* no location
GetCurrentLocationAndLoadDeals(coords) ==
  /\ bscreen.locating
  /\ bscreen' =
       IF coords = NoLocation THEN bscreen
       ELSE loadDeals([bscreen EXCEPT !.userLocation = coords,
                                      !.locating = FALSE],
                      bscreen.userLocation, coords, deals, now)
  /\ UNCHANGED <<now, deals, dealSeq, orders, vend, buy, overlap, nearby, last>>
  /\ UNCHANGED <<call, otps, otpc, ret, feed, dist>>

\* BuyerScreen.fetchBuyerProfileLocation, started by the mount effect: the
\* answer of buyer_profile arrives and setProfileLocation runs
FetchBuyerProfileLocation ==
  /\ bscreen.saved # NoLocation
  /\ bscreen.profileLocation = NoLocation
  /\ bscreen' = [bscreen EXCEPT !.profileLocation = bscreen.saved]
  /\ UNCHANGED <<now, deals, dealSeq, orders, vend, buy, overlap, nearby, last>>
  /\ UNCHANGED <<call, otps, otpc, ret, feed, dist>>

\* the buttons 'Update Location' and 'Refresh Location':
\* getCurrentLocationAndLoadDeals of the current render
HandleUpdateLocation(coords) ==
  /\ ~bscreen.locating
  /\ bscreen' =
       IF bscreen.profileLocation # NoLocation
       THEN loadDeals([bscreen EXCEPT !.userLocation = bscreen.profileLocation],
                      bscreen.userLocation, bscreen.profileLocation, deals, now)
       ELSE IF coords = NoLocation THEN bscreen
       ELSE loadDeals([bscreen EXCEPT !.userLocation = coords],
                      bscreen.userLocation, coords, deals, now)
  /\ UNCHANGED <<now, deals, dealSeq, orders, vend, buy, overlap, nearby, last>>
  /\ UNCHANGED <<call, otps, otpc, ret, feed, dist>>

\* BuyerScreen.handleRefresh: loadDeals() of the current render
HandleRefresh ==
  /\ bscreen' = loadDeals(bscreen, bscreen.userLocation, NoLocation, deals, now)
  /\ UNCHANGED <<now, deals, dealSeq, orders, vend, buy, overlap, nearby, last>>
  /\ UNCHANGED <<call, otps, otpc, ret, feed, dist>>

\* the callback BuyerScreen subscribed to the deals channel: loadDeals() of
\* the render that ran the mount effect
OnDealsChangeBuyer ==
  /\ "buyer" \in DOMAIN feed
  /\ feed["buyer"] > 0
  /\ feed' = Deliver(feed, "buyer")
  /\ bscreen' = loadDeals(bscreen, bscreen.captured, NoLocation, deals, now)
  /\ UNCHANGED <<now, deals, dealSeq, orders, vend, buy, overlap, nearby, last>>
  /\ UNCHANGED <<call, otps, otpc, ret, dist>>

\* a read of a deal that also stores it as expired once its time has passed
GetDealById_Expiring(s, dealId) ==
  LET uid == SessionBuyer[s]
      r == getDealById(deals, uid, dealId, now)
      past == /\ dealId \in DOMAIN deals
              /\ deals[dealId].status = "active"
              /\ deals[dealId].expiry_time <= now
  IN /\ deals' = IF past THEN [deals EXCEPT ![dealId].status = "expired"]
                 ELSE deals
     /\ last' = Done("getDealById", r, uid, dealId, 0, {})
     /\ UNCHANGED <<now, dealSeq, orders, vend, buy, overlap, nearby>>
     /\ UNCHANGED <<call, otps, otpc, ret, feed, bscreen, dist>>

\* DealDetailsScreen.loadDealDetails: getDealById(id) and its answer
GetDealById(s, dealId) ==
  LET uid == SessionBuyer[s]
      r == getDealById(deals, uid, dealId, now)
  IN /\ last' = Done("getDealById", r, uid, dealId, 0, {})
     /\ UNCHANGED <<now, deals, dealSeq, orders, vend, buy, overlap, nearby>>
     /\ UNCHANGED <<call, otps, otpc, ret, feed, bscreen, dist>>

(***************************************************************************)
(* Orders: OrderService.createOrder, two round trips.                      *)
(***************************************************************************)
BuyInit == [pc |-> "idle", deal |-> NoDeal, res |-> "none"]

\* orders.collected_at of an order not collected (null)
NoTime == 0 - 1

\* the orders table is a bag of rows; the number of orders of a buyer for
\* a deal
OrderRows(uid, dealId) ==
  {[buyer_id |-> uid, deal_id |-> dealId, status |-> st, collected_at |-> c] :
     st \in {"reserved", "collected", "missed", "expired"},
     c \in NoTime..MaxTime}

RECURSIVE SumCopies(_, _)
SumCopies(ords, S) ==
  IF S = {} THEN 0
  ELSE LET x == CHOOSE y \in S : TRUE
       IN CopiesIn(x, ords) + SumCopies(ords, S \ {x})

OrdersOf(ords, uid, dealId) == SumCopies(ords, OrderRows(uid, dealId))

\* the existence check finding nothing
ExistingOrder_Never(ords, uid, dealId) == FALSE

\* .select('id').eq('buyer_id', ..).eq('deal_id', ..).single(): the data is
\* the row when exactly one row matches, and null otherwise
ExistingOrder(ords, uid, dealId) == OrdersOf(ords, uid, dealId) = 1

\* the orders table with UNIQUE (buyer_id, deal_id)
OrdersRowOK_Unique(ords, tbl, uid, row) ==
  /\ uid = row.buyer_id
  /\ row.deal_id \in DOMAIN tbl
  /\ row.status \in {"reserved", "collected", "missed", "expired"}
  /\ OrdersOf(ords, row.buyer_id, row.deal_id) = 0

\* the orders table accepts a row: policy "Buyers can insert own orders",
\* the foreign key to deals, the status CHECK; no uniqueness constraint
OrdersRowOK(ords, tbl, uid, row) ==
  /\ uid = row.buyer_id
  /\ row.deal_id \in DOMAIN tbl
  /\ row.status \in {"reserved", "collected", "missed", "expired"}

\* the insert of createOrder
createOrderInsert(ords, tbl, uid, dealId) ==
  LET row == [buyer_id |-> uid, deal_id |-> dealId, status |-> "reserved",
              collected_at |-> NoTime]
  IN IF OrdersRowOK(ords, tbl, uid, row)
     THEN Resp(TRUE, "Deal reserved successfully!", ords (+) SetToBag({row}))
     ELSE Resp(FALSE, "Failed to reserve deal", ords)

\* policy "Buyers can update own orders", the only UPDATE policy of orders
OrdersUpdateOK(uid, row) == uid = row.buyer_id

\* OrderService.markAsCollected on the order row, at time t
markAsCollected(ords, uid, row, t) ==
  LET collected == [row EXCEPT !.status = "collected", !.collected_at = t]
  IN IF BagIn(row, ords) /\ OrdersUpdateOK(uid, row)
     THEN Resp(TRUE, "Order marked as collected successfully",
               (ords (-) SetToBag({row})) (+) SetToBag({collected}))
     ELSE Resp(FALSE, "Failed to mark order as collected", ords)

\* VendorOrderDetailsScreen.handleMarkAsCollected, confirmed, on an order
\* the vendor's screen shows as reserved (policy "Vendors can view orders
\* for their deals")
HandleMarkAsCollected(s, row) ==
  LET uid == SessionVendor[s]
      r == markAsCollected(orders, uid, row, now)
  IN /\ BagIn(row, orders)
     /\ row.status = "reserved"
     /\ row.deal_id \in DOMAIN deals
     /\ deals[row.deal_id].vendor_id = uid
     /\ orders' = r.table
     /\ last' = Done("markAsCollected", r, uid, row.deal_id, 0, {})
     /\ UNCHANGED <<now, deals, dealSeq, vend, buy, overlap, nearby>>
     /\ UNCHANGED <<call, otps, otpc, ret, feed, bscreen, dist>>

\* createOrder up to the answer of the existence check
CreateOrderCheck(s, dealId) ==
  LET uid == SessionBuyer[s]
      existingOrder == ExistingOrder(orders, uid, dealId)
      n == OrdersOf(orders, uid, dealId)
  IN /\ buy[s].pc = "idle"
     /\ dealId \in 1..dealSeq
     /\ overlap' = [overlap EXCEPT ![uid] =
                      @ \/ \E t \in BuyerSessions \ {s} :
                             SessionBuyer[t] = uid /\ buy[t].pc = "insert"]
     /\ IF existingOrder
        THEN /\ buy' = [buy EXCEPT ![s].deal = dealId, ![s].res = "dup"]
             /\ last' = Done("createOrder",
                             Resp(FALSE, "You have already reserved this deal", orders),
                             uid, dealId, n, {})
        ELSE /\ buy' = [buy EXCEPT ![s].pc = "insert", ![s].deal = dealId,
                                   ![s].res = "none"]
             /\ last' = [NoOp EXCEPT !.q = n]
     /\ UNCHANGED <<now, deals, dealSeq, orders, vend, nearby>>
     /\ UNCHANGED <<call, otps, otpc, ret, feed, bscreen, dist>>

\* the insert of createOrder also taking one unit of the deal's stock
CreateOrderInsert_Decrement(s) ==
  LET uid == SessionBuyer[s]
      dealId == buy[s].deal
      n == OrdersOf(orders, uid, dealId)
      r == createOrderInsert(orders, deals, uid, dealId)
  IN /\ buy[s].pc = "insert"
     /\ BagCardinality(orders) < MaxOrders
     /\ orders' = r.table
     /\ deals' = IF r.ok /\ deals[dealId].remaining_quantity > 0
                 THEN [deals EXCEPT ![dealId].remaining_quantity = @ - 1]
                 ELSE deals
     /\ buy' = [buy EXCEPT ![s].pc = "idle",
                           ![s].res = IF r.ok THEN "ok" ELSE "fail"]
     /\ last' = Done("createOrder", r, uid, dealId, n, {})
     /\ UNCHANGED <<now, dealSeq, vend, overlap, nearby>>
     /\ UNCHANGED <<call, otps, otpc, ret, feed, bscreen, dist>>

\* the insert of createOrder and its answer
CreateOrderInsert(s) ==
  LET uid == SessionBuyer[s]
      dealId == buy[s].deal
      n == OrdersOf(orders, uid, dealId)
      r == createOrderInsert(orders, deals, uid, dealId)
  IN /\ buy[s].pc = "insert"
     /\ BagCardinality(orders) < MaxOrders
     /\ orders' = r.table
     /\ buy' = [buy EXCEPT ![s].pc = "idle",
                           ![s].res = IF r.ok THEN "ok" ELSE "fail"]
     /\ last' = Done("createOrder", r, uid, dealId, n, {})
     /\ UNCHANGED <<now, deals, dealSeq, vend, overlap, nearby>>
     /\ UNCHANGED <<call, otps, otpc, ret, feed, bscreen, dist>>

(***************************************************************************)
(* OTPService: the otps table and the calls against it.  In SpecOTP the    *)
(* clock counts units of TimeUnitMs milliseconds.                          *)
(***************************************************************************)

TimeUnitMs == 150000

fiveMinutesInMs == 5 * 60 * 1000

Phone == "9000000001"
ShortPhone == "12345"

\* Math.random() leaves the generated code open
Codes == {"111111", "222222"}

OtpSessions == {1, 2}

NoOtps == [rows |-> {}, seq |-> 0]

NoRec == [id |-> 0, phone_number |-> "", otp |-> "", created_at |-> 0]

OtpIdle ==
  [pc |-> "idle", op |-> "none", phone |-> "", otp |-> "", rec |-> NoRec,
   at |-> 0, success |-> FALSE, message |-> ""]

\* a call that has returned { success, message }
OtpAnswer(c, success, message) ==
  [c EXCEPT !.pc = "idle", !.success = success, !.message = message]

\* the call begins: the arguments are bound, nothing has been fetched
OtpBegin(op, phone, otp) ==
  [OtpIdle EXCEPT !.op = op, !.phone = phone, !.otp = otp]

\* .eq('phone_number', phone)
OtpsOf(rows, phone) == {r \in rows : r.phone_number = phone}

\* .order('created_at', { ascending: false }).limit(1); ids are handed out
\* in the order of the clock, so the newest row has the largest id
LatestOtp(rows) == CHOOSE r \in rows : \A q \in rows : q.id <= r.id

\* .delete().eq('id', otpRecord.id)
DeleteOtp(rows, id) == {r \in rows : r.id # id}

OtpExpired_AtFive(otpRecord, t) ==
  (t - otpRecord.created_at) * TimeUnitMs >= fiveMinutesInMs

\* timeDifference > fiveMinutesInMs
OtpExpired(otpRecord, t) ==
  (t - otpRecord.created_at) * TimeUnitMs > fiveMinutesInMs

\* the clock of the OTP specification advances
TickOtp ==
  /\ now < MaxOtpTime
  /\ now' = now + 1
  /\ UNCHANGED <<deals, dealSeq, orders, vend, buy, overlap, nearby, last>>
  /\ UNCHANGED <<call, otps, otpc, ret, feed, bscreen, dist>>

\* sendOTP up to its first round trip: the validation and the delete of the
\* phone's old rows
SendOTP(s, phone) ==
  LET c == OtpBegin("sendOTP", phone, "")
      pending == Cardinality({t \in OtpSessions : otpc[t].pc = "insert"})
  IN /\ otpc[s].pc = "idle"
     /\ otps.seq + pending < MaxOtps
     /\ IF phone = "" \/ Len(phone) < 10
        THEN /\ otpc' = [otpc EXCEPT ![s] =
                  OtpAnswer(c, FALSE, "Please enter a valid phone number")]
             /\ otps' = otps
        ELSE /\ otps' = [otps EXCEPT
                  !.rows = {r \in @ : r.phone_number # phone}]
             /\ otpc' = [otpc EXCEPT ![s] = [c EXCEPT !.pc = "insert"]]
     /\ UNCHANGED <<now, deals, dealSeq, orders, vend, buy, overlap, nearby, last>>
     /\ UNCHANGED <<call, ret, feed, bscreen, dist>>

\* the second round trip of sendOTP: the insert of the generated code
SendOTPInsert(s, otp) ==
  LET c == otpc[s]
      row == [id |-> otps.seq + 1, phone_number |-> c.phone, otp |-> otp,
              created_at |-> now]
  IN /\ c.pc = "insert"
     /\ otps' = [rows |-> otps.rows \cup {row}, seq |-> otps.seq + 1]
     /\ otpc' = [otpc EXCEPT ![s] =
          OtpAnswer([c EXCEPT !.otp = otp, !.rec = row, !.at = now], TRUE,
                    "OTP generated successfully. Check console for testing.")]
     /\ UNCHANGED <<now, deals, dealSeq, orders, vend, buy, overlap, nearby, last>>
     /\ UNCHANGED <<call, ret, feed, bscreen, dist>>

\* verifyOTP up to its first round trip: the validation, the fetch of the
\* latest row, and the checks made on it before the next await
VerifyOTP(s, phone, enteredOtp) ==
  LET c == OtpBegin("verifyOTP", phone, enteredOtp)
      otpRecords == OtpsOf(otps.rows, phone)
      otpRecord == LatestOtp(otpRecords)
      got == [c EXCEPT !.rec = otpRecord, !.at = now]
  IN /\ otpc[s].pc = "idle"
     /\ otpc' = [otpc EXCEPT ![s] =
          IF phone = "" \/ enteredOtp = ""
          THEN OtpAnswer(c, FALSE, "Phone number and OTP are required")
          ELSE IF otpRecords = {}
          THEN OtpAnswer(c, FALSE, "No OTP found. Please request a new OTP.")
          ELSE IF OtpExpired(otpRecord, now)
          THEN [got EXCEPT !.pc = "expired"]
          ELSE IF otpRecord.otp # enteredOtp
          THEN OtpAnswer(got, FALSE, "Invalid OTP. Please check and try again.")
          ELSE [got EXCEPT !.pc = "used"]]
     /\ UNCHANGED <<now, deals, dealSeq, orders, vend, buy, overlap, nearby, last>>
     /\ UNCHANGED <<call, otps, ret, feed, bscreen, dist>>

\* the second round trip of verifyOTP: the delete of the fetched row by id,
\* and the answer
VerifyOTPDelete(s) ==
  LET c == otpc[s]
  IN /\ c.pc \in {"expired", "used"}
     /\ otps' = [otps EXCEPT !.rows = DeleteOtp(@, c.rec.id)]
     /\ otpc' = [otpc EXCEPT ![s] =
          IF c.pc = "expired"
          THEN OtpAnswer(c, FALSE, "OTP has expired. Please request a new OTP.")
          ELSE OtpAnswer(c, TRUE, "OTP verified successfully!")]
     /\ UNCHANGED <<now, deals, dealSeq, orders, vend, buy, overlap, nearby, last>>
     /\ UNCHANGED <<call, ret, feed, bscreen, dist>>

RestInit ==
  /\ call = NoCall
  /\ otps = NoOtps
  /\ otpc = <<>>
  /\ ret = NoRet
  /\ feed = <<>>
  /\ bscreen = BuyerScreenInit
  /\ dist = <<>>

Init ==
  /\ now = 0
  /\ deals = <<>>
  /\ dealSeq = 0
  /\ orders = EmptyBag
  /\ vend = [s \in VendorSessions |-> VendInit]
  /\ buy = [s \in BuyerSessions |-> BuyInit]
  /\ overlap = [b \in Buyers |-> FALSE]
  /\ nearby = NoNearby
  /\ last = NoOp
  /\ RestInit

VendorNext ==
  \/ \E s \in VendorSessions : LoadDealsFetch(s)
  \/ \E s \in VendorSessions : LoadDealsSweep(s)
  \/ \E s \in VendorSessions : \E snap \in vend[s].list : HandleMarkAsSold(s, snap)
  \/ \E s \in VendorSessions : \E snap \in vend[s].list : HandleDeleteDeal(s, snap)
  \/ \E s \in VendorSessions : \E snap \in vend[s].list : HandleEditQuantity(s, snap)
  \/ \E s \in VendorSessions : HandleDialogCancel(s)
  \/ \E s \in VendorSessions : \E q \in (0 - 1)..(MaxQty + 1) : HandleDialogConfirm(s, q)
  \/ \E s \in VendorSessions : UpdateDealQuantityWrite(s)

Next ==
  \/ Tick
  \/ \E s \in VendorSessions : \E q \in 0..MaxQty : \E e \in 0..MaxTime :
       HandleSubmit(s, q, e)
  \/ VendorNext

Spec == Init /\ [][Next]_vars

(***************************************************************************)
(* Reservation against posted deals: every vendor has loaded the listing   *)
(* of the deals it posted.                                                 *)
(***************************************************************************)
PostedRow(d) ==
  NewDealRow("v1", d, [quantity |-> MaxQty, expiry_time |-> MaxTime,
                       latitude |-> VendorLocation["v1"].latitude,
                       longitude |-> VendorLocation["v1"].longitude])

InitOrders ==
  /\ now = 0
  /\ deals = [d \in DealIds |-> PostedRow(d)]
  /\ dealSeq = MaxDeals
  /\ orders = EmptyBag
  /\ vend = [s \in VendorSessions |->
               [VendInit EXCEPT !.list = {Snap(d, PostedRow(d)) : d \in DealIds}]]
  /\ buy = [s \in BuyerSessions |-> BuyInit]
  /\ overlap = [b \in Buyers |-> FALSE]
  /\ nearby = NoNearby
  /\ last = NoOp
  /\ RestInit

NextOrders ==
  \/ \E s \in BuyerSessions : \E d \in DealIds : CreateOrderCheck(s, d)
  \/ \E s \in BuyerSessions : CreateOrderInsert(s)
  \/ \E s \in VendorSessions : \E snap \in vend[s].list : HandleMarkAsSold(s, snap)
  \/ \E s \in VendorSessions : \E snap \in vend[s].list : HandleDeleteDeal(s, snap)
  \/ \E s \in VendorSessions : \E row \in BagToSet(orders) :
       HandleMarkAsCollected(s, row)

SpecOrders == InitOrders /\ [][NextOrders]_vars

(***************************************************************************)
(* Nearby query against any stored deals.                                  *)
(***************************************************************************)
StoredRows ==
  {[vendor_id |-> "v1", quantity |-> 1, remaining_quantity |-> 1,
    status |-> st, expiry_time |-> e, created_at |-> 0,
    latitude |-> p.latitude, longitude |-> p.longitude] :
     st \in Statuses, e \in 1..MaxTime, p \in ShopPoints}

InitNearby ==
  /\ now = 0
  /\ \E rows \in [DealIds -> StoredRows] :
       deals = [d \in DealIds |-> [rows[d] EXCEPT !.created_at = d]]
  /\ dealSeq = MaxDeals
  /\ orders = EmptyBag
  /\ vend = [s \in VendorSessions |-> VendInit]
  /\ buy = [s \in BuyerSessions |-> BuyInit]
  /\ overlap = [b \in Buyers |-> FALSE]
  /\ nearby = NoNearby
  /\ last = NoOp
  /\ RestInit

NextNearby ==
  \/ \E p \in UserPoints : \E r \in RadiusChoices : GetNearbyDeals(p, r)
  \/ Tick

SpecNearby == InitNearby /\ [][NextNearby]_vars

(***************************************************************************)
(* Direct calls of the deal operations on posted deals of both vendors.    *)
(***************************************************************************)
OwnerOf(d) == IF d % 2 = 1 THEN "v1" ELSE "v2"

ServiceRow(d) ==
  NewDealRow(OwnerOf(d), d,
             [quantity |-> MaxQty, expiry_time |-> MaxTime,
              latitude |-> VendorLocation[OwnerOf(d)].latitude,
              longitude |-> VendorLocation[OwnerOf(d)].longitude])

InitService ==
  /\ now = 0
  /\ deals = [d \in DealIds |-> ServiceRow(d)]
  /\ dealSeq = MaxDeals
  /\ orders = EmptyBag
  /\ vend = [s \in VendorSessions |-> VendInit]
  /\ buy = [s \in BuyerSessions |-> BuyInit]
  /\ overlap = [b \in Buyers |-> FALSE]
  /\ nearby = NoNearby
  /\ last = NoOp
  /\ RestInit

NextService ==
  \/ \E uid \in Callers : \E d \in DealIds : \E st \in Statuses :
       CallUpdateDealStatus(uid, d, st)
  \/ \E uid \in Callers : \E d \in DealIds : CallDeleteDeal(uid, d)
  \/ \E uid \in Callers : \E d \in DealIds : \E q \in (0 - 1)..(MaxQty + 1) :
       CallUpdateDealQuantity(uid, d, q)
  \/ CallUpdateDealQuantityWrite

SpecService == InitService /\ [][NextService]_vars

(***************************************************************************)
(* Buyer-side reads and reservations, and the vendor's listing load, on    *)
(* stored deals of any status while time passes.                           *)
(***************************************************************************)
BuyerRows ==
  {[vendor_id |-> "v1", quantity |-> 1, remaining_quantity |-> 1,
    status |-> st, expiry_time |-> e, created_at |-> 0,
    latitude |-> P_East.latitude, longitude |-> P_East.longitude] :
     st \in Statuses, e \in 1..MaxTime}

InitBuyer ==
  /\ now = 0
  /\ \E rows \in [DealIds -> BuyerRows] :
       deals = [d \in DealIds |-> [rows[d] EXCEPT !.created_at = d]]
  /\ dealSeq = MaxDeals
  /\ orders = EmptyBag
  /\ vend = [s \in VendorSessions |-> VendInit]
  /\ buy = [s \in BuyerSessions |-> BuyInit]
  /\ overlap = [b \in Buyers |-> FALSE]
  /\ nearby = NoNearby
  /\ last = NoOp
  /\ RestInit

BuyerReader == 1

NextBuyer ==
  \/ Tick
  \/ GetNearbyDeals(U_Home, DefaultRadius)
  \/ \E d \in DealIds : GetDealById(BuyerReader, d)
  \/ \E d \in DealIds : CreateOrderCheck(BuyerReader, d)
  \/ CreateOrderInsert(BuyerReader)
  \/ \E s \in VendorSessions : LoadDealsFetch(s)
  \/ \E s \in VendorSessions : LoadDealsSweep(s)

SpecBuyer == InitBuyer /\ [][NextBuyer]_vars

(***************************************************************************)
(* The two distance functions applied to pairs of points of the globe.     *)
(***************************************************************************)
NoDist(p, q) ==
  [a |-> p, b |-> q, by |-> "none", ab |-> FZero, ba |-> FZero, aa |-> FZero]

\* the three distances of a pair under the function tabulated in tab
Distances(tab, p, q) == [ab |-> tab[p][q], ba |-> tab[q][p], aa |-> tab[p][p]]

\* LocationService.calculateDistance called on the pair, both ways
CalculateDistance ==
  LET r == Distances(ClientDistanceTable, dist.a, dist.b)
  IN /\ dist.by = "none"
     /\ dist' = [dist EXCEPT !.by = "client", !.ab = r.ab, !.ba = r.ba,
                             !.aa = r.aa]
     /\ UNCHANGED <<now, deals, dealSeq, orders, vend, buy, overlap, nearby, last>>
     /\ UNCHANGED <<call, otps, otpc, ret, feed, bscreen>>

\* SELECT calculate_distance(...) on the pair, both ways
SelectCalculateDistance ==
  LET r == Distances(DistanceTable, dist.a, dist.b)
  IN /\ dist.by = "none"
     /\ dist' = [dist EXCEPT !.by = "database", !.ab = r.ab, !.ba = r.ba,
                             !.aa = r.aa]
     /\ UNCHANGED <<now, deals, dealSeq, orders, vend, buy, overlap, nearby, last>>
     /\ UNCHANGED <<call, otps, otpc, ret, feed, bscreen>>

InitDistance ==
  /\ now = 0
  /\ deals = <<>>
  /\ dealSeq = 0
  /\ orders = EmptyBag
  /\ vend = [s \in VendorSessions |-> VendInit]
  /\ buy = [s \in BuyerSessions |-> BuyInit]
  /\ overlap = [b \in Buyers |-> FALSE]
  /\ nearby = NoNearby
  /\ last = NoOp
  /\ call = NoCall
  /\ otps = NoOtps
  /\ otpc = <<>>
  /\ ret = NoRet
  /\ feed = <<>>
  /\ bscreen = BuyerScreenInit
  /\ \E p \in GlobePoints : \E q \in GlobePoints : dist = NoDist(p, q)

NextDistance ==
  \/ CalculateDistance
  \/ SelectCalculateDistance

SpecDistance == InitDistance /\ [][NextDistance]_vars

(***************************************************************************)
(* OTP specification: two clients send and verify codes for one phone.     *)
(***************************************************************************)

InitOTP ==
  /\ now = 0
  /\ deals = <<>>
  /\ dealSeq = 0
  /\ orders = EmptyBag
  /\ vend = [s \in VendorSessions |-> VendInit]
  /\ buy = [s \in BuyerSessions |-> BuyInit]
  /\ overlap = [b \in Buyers |-> FALSE]
  /\ nearby = NoNearby
  /\ last = NoOp
  /\ call = NoCall
  /\ otps = NoOtps
  /\ otpc = [s \in OtpSessions |-> OtpIdle]
  /\ ret = NoRet
  /\ feed = <<>>
  /\ bscreen = BuyerScreenInit
  /\ dist = <<>>

NextOTP ==
  \/ TickOtp
  \/ \E s \in OtpSessions : \E phone \in {Phone, ShortPhone} : SendOTP(s, phone)
  \/ \E s \in OtpSessions : \E otp \in Codes : SendOTPInsert(s, otp)
  \/ \E s \in OtpSessions : \E otp \in Codes \cup {""} : VerifyOTP(s, Phone, otp)
  \/ \E s \in OtpSessions : VerifyOTPDelete(s)

SpecOTP == InitOTP /\ [][NextOTP]_vars

(***************************************************************************)
(* Service calls with the calls whose answer is not a DealResponse.        *)
(***************************************************************************)
NextShapes ==
  \/ NextService
  \/ \E id \in Vendors \cup Buyers : CallGetVendorProfileById(id)
  \/ \E uid \in Callers : CallGetCurrentUser(uid)

SpecShapes == InitService /\ [][NextShapes]_vars

(***************************************************************************)
(* Change feed: a vendor screen and a buyer screen are mounted and         *)
(* subscribed to the deals channel while the vendor posts, sells and       *)
(* deletes deals.                                                          *)
(***************************************************************************)
InitFeed ==
  /\ now = 0
  /\ deals = <<>>
  /\ dealSeq = 0
  /\ orders = EmptyBag
  /\ vend = [s \in VendorSessions |-> VendInit]
  /\ buy = [s \in BuyerSessions |-> BuyInit]
  /\ overlap = [b \in Buyers |-> FALSE]
  /\ nearby = NoNearby
  /\ last = NoOp
  /\ call = NoCall
  /\ otps = NoOtps
  /\ otpc = <<>>
  /\ ret = NoRet
  /\ feed = [sc \in {"buyer", "vendor"} |-> 0]
  /\ bscreen = BuyerScreenInit
  /\ dist = <<>>

NextFeed ==
  \/ Tick
  \/ \E s \in VendorSessions : \E e \in 0..MaxTime : HandleSubmit(s, 1, e)
  \/ \E s \in VendorSessions : LoadDealsFetch(s)
  \/ \E s \in VendorSessions : LoadDealsSweep(s)
  \/ \E s \in VendorSessions : \E snap \in vend[s].list : HandleMarkAsSold(s, snap)
  \/ \E s \in VendorSessions : \E snap \in vend[s].list : HandleDeleteDeal(s, snap)
  \/ \E s \in VendorSessions : OnDealsChangeVendor(s)
  \/ \E coords \in {U_Home, NoLocation} : GetCurrentLocationAndLoadDeals(coords)
  \/ HandleRefresh
  \/ OnDealsChangeBuyer

SpecFeed == InitFeed /\ [][NextFeed]_vars

(***************************************************************************)
(* The buyer screen of a buyer with or without a saved profile location.   *)
(***************************************************************************)
InitProfile ==
  /\ now = 0
  /\ deals = <<>>
  /\ dealSeq = 0
  /\ orders = EmptyBag
  /\ vend = [s \in VendorSessions |-> VendInit]
  /\ buy = [s \in BuyerSessions |-> BuyInit]
  /\ overlap = [b \in Buyers |-> FALSE]
  /\ nearby = NoNearby
  /\ last = NoOp
  /\ call = NoCall
  /\ otps = NoOtps
  /\ otpc = <<>>
  /\ ret = NoRet
  /\ feed = [sc \in {"buyer"} |-> 0]
  /\ \E saved \in {NoLocation, P_North} :
       bscreen = [BuyerScreenInit EXCEPT !.saved = saved]
  /\ dist = <<>>

NextProfile ==
  \/ Tick
  \/ \E s \in VendorSessions : \E e \in 0..MaxTime : HandleSubmit(s, 1, e)
  \/ \E coords \in {U_Home, NoLocation} : GetCurrentLocationAndLoadDeals(coords)
  \/ FetchBuyerProfileLocation
  \/ \E coords \in {U_Home, NoLocation} : HandleUpdateLocation(coords)
  \/ HandleRefresh
  \/ OnDealsChangeBuyer

SpecProfile == InitProfile /\ [][NextProfile]_vars

(***************************************************************************)
(* Vendor analytics: get_vendor_daily_revenue.  In SpecRevenue the clock   *)
(* counts days, and the rows of orders carry their created_at.             *)
(***************************************************************************)

RevenueStatuses == {"reserved", "collected", "missed", "expired"}

\* the deals of SpecRevenue: one of each vendor, with its discounted_price
RevenueDeals ==
  [d \in DealIds |->
     [vendor_id |-> OwnerOf(d), quantity |-> MaxQty, remaining_quantity |-> MaxQty,
      status |-> "active", expiry_time |-> MaxTime + 1, created_at |-> d,
      latitude |-> VendorLocation[OwnerOf(d)].latitude,
      longitude |-> VendorLocation[OwnerOf(d)].longitude,
      discounted_price |-> 30 + 20 * d]]

\* SUM(expr) and COUNT over the rows of a bag: every copy counts
RECURSIVE SumOver(_, _, _)
SumOver(ords, S, val) ==
  IF S = {} THEN 0
  ELSE LET o == CHOOSE x \in S : TRUE
       IN CopiesIn(o, ords) * val[o] + SumOver(ords, S \ {o}, val)

\* LEFT JOIN deals d ON o.deal_id = d.id AND d.vendor_id = vendor_uuid:
\* whether the order row gets a deal row (d is NULL otherwise)
JoinedDeal(tbl, o, vendor_uuid) ==
  o.deal_id \in DOMAIN tbl /\ tbl[o.deal_id].vendor_id = vendor_uuid

\* WHERE o.status IS NULL OR o.status IN ('collected', 'reserved'), on a
\* joined row that has an order
RevenueWhere(o) == o.status \in {"collected", "reserved"}

\* get_vendor_daily_revenue(vendor_uuid, days_back) called on day today:
\* the rows returned, one for each date of the series that keeps a row
\* after the WHERE
get_vendor_daily_revenue(ords, tbl, vendor_uuid, days_back, today) ==
  LET date_series == (today - days_back)..today
      OnDate(ds) == {o \in BagToSet(ords) : o.created_at = ds}
      Kept(ds) == {o \in OnDate(ds) : RevenueWhere(o)}
      discounted_price == [o \in BagToSet(ords) |->
                             IF JoinedDeal(tbl, o, vendor_uuid)
                             THEN tbl[o.deal_id].discounted_price ELSE 0]
      id == [o \in BagToSet(ords) |-> 1]
  IN {[date |-> ds,
       revenue |-> SumOver(ords, Kept(ds), discounted_price),
       order_count |-> SumOver(ords, Kept(ds), id)] :
        ds \in {x \in date_series : OnDate(x) = {} \/ Kept(x) # {}}}

\* an order is inserted on the current day (createOrder; created_at
\* DEFAULT now())
RevenueCreateOrder(b, d) ==
  /\ BagCardinality(orders) < MaxOrders
  /\ d \in DOMAIN deals
  /\ orders' = orders (+) SetToBag({[buyer_id |-> b, deal_id |-> d,
                                     status |-> "reserved", collected_at |-> NoTime,
                                     created_at |-> now]})
  /\ last' = NoOp
  /\ UNCHANGED <<now, deals, dealSeq, vend, buy, overlap, nearby>>
  /\ UNCHANGED <<call, otps, otpc, ret, feed, bscreen, dist>>

\* the status of an order changes (markAsCollected, or the order is missed)
RevenueOrderStatus(o, st) ==
  /\ BagIn(o, orders)
  /\ o.status = "reserved"
  /\ orders' = (orders (-) SetToBag({o})) (+)
                 SetToBag({[o EXCEPT !.status = st,
                                     !.collected_at = IF st = "collected"
                                                      THEN now ELSE NoTime]})
  /\ last' = NoOp
  /\ UNCHANGED <<now, deals, dealSeq, vend, buy, overlap, nearby>>
  /\ UNCHANGED <<call, otps, otpc, ret, feed, bscreen, dist>>

\* supabase.rpc('get_vendor_daily_revenue', {vendor_uuid, days_back})
CallGetVendorDailyRevenue(vendor_uuid, days_back) ==
  /\ ret' = [op |-> "get_vendor_daily_revenue",
             arg |-> <<vendor_uuid, days_back>>,
             value |-> get_vendor_daily_revenue(orders, deals, vendor_uuid,
                                                days_back, now)]
  /\ last' = NoOp
  /\ UNCHANGED <<now, deals, dealSeq, orders, vend, buy, overlap, nearby>>
  /\ UNCHANGED <<call, otps, otpc, feed, bscreen, dist>>

InitRevenue ==
  /\ now = 0
  /\ deals = RevenueDeals
  /\ dealSeq = MaxDeals
  /\ orders = EmptyBag
  /\ vend = [s \in VendorSessions |-> VendInit]
  /\ buy = [s \in BuyerSessions |-> BuyInit]
  /\ overlap = [b \in Buyers |-> FALSE]
  /\ nearby = NoNearby
  /\ last = NoOp
  /\ RestInit

NextRevenue ==
  \/ Tick
  \/ \E d \in DealIds : RevenueCreateOrder("b1", d)
  \/ \E o \in BagToSet(orders) : \E st \in {"collected", "missed"} :
       RevenueOrderStatus(o, st)
  \/ \E v \in Vendors : \E n \in 0..1 : CallGetVendorDailyRevenue(v, n)

SpecRevenue == InitRevenue /\ [][NextRevenue]_vars

(***************************************************************************)
(* DealDetailsScreen: the deal as loaded, the Reserve button, and the      *)
(* createOrder it starts; vendors change their deals meanwhile.            *)
(***************************************************************************)

\* the screen before its deal has loaded (deal is null: no Reserve button)
DetailsInit ==
  [pc |-> "idle", deal |-> NoDeal, res |-> "none", shown |-> NoDeal,
   canReserve |-> FALSE]

\* isExpired and canReserve of the render that follows setDeal, for a user
\* whose role is buyer
canReserve(deal, t) ==
  LET isExpired == deal.expiry_time <= t
  IN deal.status = "active" /\ ~isExpired

\* DealDetailsScreen.loadDealDetails and the render that follows it
LoadDealDetails(s, dealId) ==
  LET uid == SessionBuyer[s]
      response == getDealById(deals, uid, dealId, now)
  IN /\ buy[s].pc = "idle"
     /\ buy' = [buy EXCEPT ![s].shown = IF response.ok THEN dealId ELSE NoDeal,
                           ![s].canReserve = response.ok /\
                                               canReserve(deals[dealId], now)]
     /\ last' = Done("getDealById", response, uid, dealId, 0, {})
     /\ UNCHANGED <<now, deals, dealSeq, orders, vend, overlap, nearby>>
     /\ UNCHANGED <<call, otps, otpc, ret, feed, bscreen, dist>>

\* DealDetailsScreen.handleReserveDeal, confirmed: the button is rendered
\* when canReserve; createOrder up to the answer of its existence check
HandleReserveDeal(s) ==
  /\ buy[s].shown # NoDeal
  /\ buy[s].canReserve
  /\ CreateOrderCheck(s, buy[s].shown)

InitReserve ==
  /\ now = 0
  /\ deals = [d \in DealIds |-> PostedRow(d)]
  /\ dealSeq = MaxDeals
  /\ orders = EmptyBag
  /\ vend = [s \in VendorSessions |->
               [VendInit EXCEPT !.list = {Snap(d, PostedRow(d)) : d \in DealIds}]]
  /\ buy = [s \in BuyerSessions |-> DetailsInit]
  /\ overlap = [b \in Buyers |-> FALSE]
  /\ nearby = NoNearby
  /\ last = NoOp
  /\ RestInit

NextReserve ==
  \/ Tick
  \/ \E d \in DealIds : LoadDealDetails(BuyerReader, d)
  \/ HandleReserveDeal(BuyerReader)
  \/ CreateOrderInsert(BuyerReader)
  \/ \E s \in VendorSessions : \E snap \in vend[s].list : HandleMarkAsSold(s, snap)

SpecReserve == InitReserve /\ [][NextReserve]_vars

(***************************************************************************)
(* Posting a deal with its prices: the form's quantity, discount_percent,  *)
(* original_price and expiry_time, the discounted_price createDeal         *)
(* computes, and the price columns of the deals table.                     *)
(***************************************************************************)

\* const discounted_price = original_price * (1 - discount_percent / 100);
\* the prices of PriceInputs are multiples of PriceUnit / 10000, for which
\* the product is a whole number of millionths
discounted_price(dealData) ==
  (dealData.original_price * (100 - dealData.discount_percent)) \div 100

\* a value stored in a decimal(10,2) column: rounded to hundredths, halves
\* away from zero
Decimal10_2(x) ==
  LET cent == PriceUnit \div 100
  IN IF x >= 0 THEN ((x + cent \div 2) \div cent) * cent
     ELSE 0 - (((0 - x) + cent \div 2) \div cent) * cent

\* the row createDeal inserts, as its price columns store it
PricedRow(dealData) ==
  [quantity |-> dealData.quantity,
   remaining_quantity |-> dealData.quantity,
   discount_percent |-> dealData.discount_percent,
   original_price |-> Decimal10_2(dealData.original_price),
   discounted_price |-> Decimal10_2(discounted_price(dealData)),
   expiry_time |-> dealData.expiry_time,
   status |-> "active"]

\* the CHECK constraints of the deals table on quantity and the prices
PricedRowOK(row) ==
  /\ row.quantity > 0
  /\ row.discount_percent >= 0 /\ row.discount_percent <= 100
  /\ row.original_price > 0
  /\ row.discounted_price > 0
  /\ remaining_quantity_check(row)

\* the values the form's fields are given
QuantityInputs == 0..MaxQty
DiscountInputs == {0 - 5, 0, 10, 50, 99, 100, 101}
PriceInputs == {0, PriceUnit \div 250, PriceUnit \div 100, PriceUnit \div 4,
                10 * PriceUnit}

\* PostDealScreen.handleSubmit on the form as filled in: validateForm, then
\* createDeal and its answer
HandleSubmitForm ==
  LET formData == ret.arg
      row == PricedRow(formData)
  IN /\ ret.op = "form"
     /\ ret' = [ret EXCEPT
                  !.op = "createDeal",
                  !.value = IF ~validateForm(formData)
                            THEN [success |-> FALSE, message |-> "form"]
                            ELSE IF PricedRowOK(row)
                            THEN [success |-> TRUE,
                                  message |-> "Deal created successfully!",
                                  deal |-> row]
                            ELSE [success |-> FALSE,
                                  message |-> "Failed to create deal"]]
     /\ last' = NoOp
     /\ UNCHANGED <<now, deals, dealSeq, orders, vend, buy, overlap, nearby>>
     /\ UNCHANGED <<call, otps, otpc, feed, bscreen, dist>>

InitPost ==
  /\ now \in 0..1
  /\ deals = <<>>
  /\ dealSeq = 0
  /\ orders = EmptyBag
  /\ vend = [s \in VendorSessions |-> VendInit]
  /\ buy = [s \in BuyerSessions |-> BuyInit]
  /\ overlap = [b \in Buyers |-> FALSE]
  /\ nearby = NoNearby
  /\ last = NoOp
  /\ call = NoCall
  /\ otps = NoOtps
  /\ otpc = <<>>
  /\ \E q \in QuantityInputs : \E d \in DiscountInputs : \E p \in PriceInputs :
       \E e \in 1..MaxTime :
         ret = [op |-> "form",
                arg |-> [quantity |-> q, discount_percent |-> d,
                         original_price |-> p, expiry_time |-> e],
                value |-> JsNull]
  /\ feed = <<>>
  /\ bscreen = BuyerScreenInit
  /\ dist = <<>>

NextPost == HandleSubmitForm

SpecPost == InitPost /\ [][NextPost]_vars

(***************************************************************************)
(* One vendor on two devices: the vendor screen of the first, and on the   *)
(* second the same calls made while the first is between two requests.     *)
(***************************************************************************)
\* the deal the second device works on
SecondDeviceDeals == {1}

NextDevices ==
  \/ Tick
  \/ \E s \in VendorSessions : \E q \in 1..MaxQty : HandleSubmit(s, q, 1)
  \/ \E s \in VendorSessions : LoadDealsFetch(s)
  \/ \E s \in VendorSessions : LoadDealsSweep(s)
  \/ \E s \in VendorSessions : \E snap \in vend[s].list : HandleMarkAsSold(s, snap)
  \/ \E s \in VendorSessions : \E snap \in vend[s].list : HandleDeleteDeal(s, snap)
  \/ \E s \in VendorSessions : \E snap \in vend[s].list : HandleEditQuantity(s, snap)
  \/ \E s \in VendorSessions : \E q \in 0..MaxQty : HandleDialogConfirm(s, q)
  \/ \E s \in VendorSessions : UpdateDealQuantityWrite(s)
  \/ \E d \in SecondDeviceDeals : \E st \in {"sold", "expired"} :
       CallUpdateDealStatus(SessionVendor[1], d, st)
  \/ \E d \in SecondDeviceDeals : CallDeleteDeal(SessionVendor[1], d)
  \/ \E d \in SecondDeviceDeals : \E q \in 0..MaxQty :
       CallUpdateDealQuantity(SessionVendor[1], d, q)
  \/ CallUpdateDealQuantityWrite

SpecDevices == Init /\ [][NextDevices]_vars

(***************************************************************************)
(* BuyerScreen with its loads in flight: every loadDeals sends its query   *)
(* when it is called and runs setDeals when its own answer arrives.        *)
(***************************************************************************)

\* how many loads one screen starts
MaxLoads == 3

\* the screen once the device location is known; inflight holds the answers
\* on their way, issued counts the queries sent, latest is the answer to the
\* query sent last
LoadingScreenInit ==
  [userLocation |-> U_Home, captured |-> NoLocation, locating |-> FALSE,
   deals |-> <<>>, saved |-> NoLocation, profileLocation |-> NoLocation,
   queried |-> NoLocation, inflight |-> {}, issued |-> 0, latest |-> <<>>]

\* BuyerScreen.loadDeals up to its await: handleRefresh, or the callback of
\* the deals channel, calls it and the query is sent and answered from the
\* table as it is
LoadDealsRequest ==
  LET coords == bscreen.userLocation
      response == getNearbyDeals(deals, coords, DefaultRadius, now)
  IN /\ bscreen.issued < MaxLoads
     /\ coords # NoLocation
     /\ bscreen' = [bscreen EXCEPT
                      !.issued = @ + 1,
                      !.queried = coords,
                      !.latest = response.rows,
                      !.inflight = @ \cup {[n |-> bscreen.issued + 1,
                                            response |-> response]}]
     /\ UNCHANGED <<now, deals, dealSeq, orders, vend, buy, overlap, nearby, last>>
     /\ UNCHANGED <<call, otps, otpc, ret, feed, dist>>

\* BuyerScreen.loadDeals after its await: the answer of one of the queries
\* arrives, whichever comes first, and setDeals(response.deals) runs
LoadDealsResponse(r) ==
  /\ r \in bscreen.inflight
  /\ bscreen' = [bscreen EXCEPT
                   !.inflight = @ \ {r},
                   !.deals = IF r.response.ok THEN r.response.rows ELSE @]
  /\ UNCHANGED <<now, deals, dealSeq, orders, vend, buy, overlap, nearby, last>>
  /\ UNCHANGED <<call, otps, otpc, ret, feed, dist>>

InitOverlap ==
  /\ now = 0
  /\ deals = <<>>
  /\ dealSeq = 0
  /\ orders = EmptyBag
  /\ vend = [s \in VendorSessions |-> VendInit]
  /\ buy = [s \in BuyerSessions |-> BuyInit]
  /\ overlap = [b \in Buyers |-> FALSE]
  /\ nearby = NoNearby
  /\ last = NoOp
  /\ call = NoCall
  /\ otps = NoOtps
  /\ otpc = <<>>
  /\ ret = NoRet
  /\ feed = <<>>
  /\ bscreen = LoadingScreenInit
  /\ dist = <<>>

NextOverlap ==
  \/ Tick
  \/ \E s \in VendorSessions : \E e \in 1..MaxTime : HandleSubmit(s, 1, e)
  \/ LoadDealsRequest
  \/ \E r \in bscreen.inflight : LoadDealsResponse(r)

SpecOverlap == InitOverlap /\ [][NextOverlap]_vars

TypeOK ==
  /\ now \in 0..MaxTime
  /\ dealSeq \in 0..MaxDeals
  /\ DOMAIN deals \subseteq DealIds
  /\ \A d \in DOMAIN deals : deals[d].status \in Statuses

(***************************************************************************)
(* Deal lifecycle properties.                                              *)
(***************************************************************************)

\* C1: for every stored deal, 0 <= remaining_quantity <= quantity, in every
\* reachable state (after createDeal and after any accepted or rejected
\* quantity update, status update or expiry sweep).
C1_RemainingWithinQuantity ==
  \A d \in DOMAIN deals :
    /\ 0 <= deals[d].remaining_quantity
    /\ deals[d].remaining_quantity <= deals[d].quantity

\* a quantity update has just been accepted and lowered the stock
C1_Witness ==
  /\ last.op = "updateDealQuantity" /\ last.ok
  /\ last.deal \in DOMAIN deals
  /\ deals[last.deal].remaining_quantity = last.q
  /\ last.q > 0 /\ last.q < deals[last.deal].quantity

\* C2: when updateDealQuantity succeeds with remaining quantity 0, the deal
\* it updated has remaining_quantity 0 and status sold as soon as the update
\* has been applied, and no stored deal is ever active with remaining
\* quantity 0.
C2_ZeroForcesSold ==
  /\ (last.op = "updateDealQuantity" /\ last.ok /\ last.q = 0)
       => /\ last.deal \in DOMAIN deals
          /\ deals[last.deal].remaining_quantity = 0
          /\ deals[last.deal].status = "sold"
  /\ \A d \in DOMAIN deals :
       deals[d].remaining_quantity = 0 => deals[d].status # "active"

\* a successful update to 0 of a deal that had stock of 2
C2_Witness ==
  /\ last.op = "updateDealQuantity" /\ last.ok /\ last.q = 0
  /\ last.deal \in DOMAIN deals
  /\ deals[last.deal].quantity = MaxQty
  /\ deals[last.deal].status = "sold"

C7_OneOrderPerDeal ==
  /\ \A b \in Buyers : \A d \in DealIds :
       ~overlap[b] => OrdersOf(orders, b, d) <= 1
  /\ (last.op = "createOrder" /\ last.q >= 1 /\ ~overlap[last.user])
       => /\ ~last.ok
          /\ last.message = "You have already reserved this deal"
          /\ OrdersOf(orders, last.user, last.deal) = last.q

\* a repeated reservation has just been refused
C7_Witness ==
  /\ last.op = "createOrder" /\ last.q = 1 /\ ~overlap[last.user]
  /\ last.message = "You have already reserved this deal"
  /\ OrdersOf(orders, last.user, last.deal) = 1

\* C8: nothing guards the insert of createOrder against an order made since
\* the existence check: a call that passed the check inserts its order and
\* reports success whenever the deal still exists, whatever orders the
\* (buyer, deal) pair already has.
C8_InsertUnguarded ==
  [][\A s \in BuyerSessions :
       (buy[s].pc = "insert" /\ buy'[s].pc = "idle" /\ buy[s].deal \in DOMAIN deals)
         => /\ buy'[s].res = "ok"
            /\ OrdersOf(orders', SessionBuyer[s], buy[s].deal)
                 = OrdersOf(orders, SessionBuyer[s], buy[s].deal) + 1]_vars

\* two overlapping calls of one buyer for one deal both reported success
\* and two orders exist for the pair
C8_Witness ==
  \E s \in BuyerSessions : \E t \in BuyerSessions \ {s} :
    /\ SessionBuyer[s] = SessionBuyer[t]
    /\ buy[s].deal = buy[t].deal
    /\ buy[s].res = "ok" /\ buy[t].res = "ok"
    /\ buy[s].pc = "idle" /\ buy[t].pc = "idle"
    /\ overlap[SessionBuyer[s]]
    /\ OrdersOf(orders, SessionBuyer[s], buy[s].deal) = 2

\* C9: no step of createOrder, successful or failed, changes the deals
\* table.
C9_OrderLeavesDeals ==
  [][(buy' # buy) => deals' = deals]_vars

\* a reservation has just succeeded on a deal whose stock is untouched
C9_Witness ==
  /\ last.op = "createOrder" /\ last.ok
  /\ last.deal \in DOMAIN deals
  /\ deals[last.deal].remaining_quantity = deals[last.deal].quantity
  /\ deals[last.deal].status = "active"

(***************************************************************************)
(* Nearby-deals properties.                                                *)
(***************************************************************************)
RowPoint(row) == Pt(row.latitude, row.longitude)

Delivered == {nearby.rows[i].id : i \in 1..Len(nearby.rows)}

C14_RejectionLeavesDeal ==
  [][last'.op = "updateDealQuantity" =>
       /\ (\/ last'.q < 0
           \/ /\ last'.deal \in DOMAIN deals
              /\ last'.q > deals[last'.deal].quantity)
            => ~last'.ok
       /\ ~last'.ok => deals' = deals]_vars

\* the owner asked for more than the deal's quantity and was refused
C14_Witness ==
  /\ last.op = "updateDealQuantity" /\ ~last.ok
  /\ last.message = "Remaining quantity must be between 0 and quantity"
  /\ last.deal \in DOMAIN deals
  /\ last.user = deals[last.deal].vendor_id
  /\ last.q > deals[last.deal].quantity
  /\ deals[last.deal].remaining_quantity = deals[last.deal].quantity

\* C15: a step changes a deal's status or remaining quantity, or removes
\* the deal, only when the caller of the operation is the deal's vendor_id.
C15_OnlyOwnerChanges ==
  [][\A d \in DOMAIN deals :
       (d \notin DOMAIN deals' \/ deals'[d] # deals[d])
         => last'.user = deals[d].vendor_id]_vars

\* another vendor has just called deleteDeal on a deal, which is still
\* stored and active
C15_Witness ==
  /\ last.op = "deleteDeal"
  /\ last.user \in Vendors
  /\ last.deal \in DOMAIN deals
  /\ deals[last.deal].vendor_id # last.user
  /\ deals[last.deal].status = "active"

(***************************************************************************)
(* Where expiry is enforced.                                               *)
(***************************************************************************)

\* C11: a deal's stored status changes only in a step of the vendor's
\* listing load (the sweep of loadDeals): getNearbyDeals, getDealById and
\* both round trips of createOrder leave every deal's stored status as it
\* was, also when the deal's expiry_time has passed.
C11_ExpiryOnlyOnVendorPath ==
  [][\A d \in DOMAIN deals :
       /\ d \in DOMAIN deals'
       /\ deals'[d].status # deals[d].status
            => \E s \in VendorSessions :
                 /\ vend[s].lpc = "sweeping"
                 /\ Head(vend[s].queue) = d
                 /\ deals'[d].status = "expired"]_vars

\* a deal past its expiry_time has just been read by getDealById, after a
\* nearby query and with an order placed for it, and is still stored active
C11_Witness ==
  /\ last.op = "getDealById"
  /\ last.deal \in DOMAIN deals
  /\ deals[last.deal].status = "active"
  /\ deals[last.deal].expiry_time < now
  /\ nearby.ok /\ nearby.t = now
  /\ OrdersOf(orders, SessionBuyer[BuyerReader], last.deal) >= 1

(***************************************************************************)
(* Collection of reserved orders.                                          *)
(***************************************************************************)

\* C20: when the vendor who owns a deal confirms Mark as Collected on a
\* reserved order for that deal, markAsCollected answers with success and
\* the stored order has status collected with collected_at set.
C20_MarkAsCollected ==
  [][last'.op = "markAsCollected" =>
       /\ last'.ok
       /\ \E row \in BagToSet(orders') :
            /\ row.deal_id = last'.deal
            /\ row.status = "collected"
            /\ row.collected_at # NoTime
            /\ CopiesIn(row, orders') > CopiesIn(row, orders)]_vars

(***************************************************************************)
(* Creation of deals.                                                      *)
(***************************************************************************)

\* C18: the deal stored by a successful createDeal has status active and
\* remaining_quantity equal to its quantity, the quantity that was posted,
\* and in every reachable state the status of every stored deal is one of
\* active, sold, expired.
C18_NewDealActive ==
  /\ (last.op = "createDeal" /\ last.ok)
       => /\ last.deal \in DOMAIN deals
          /\ deals[last.deal].status = "active"
          /\ deals[last.deal].quantity = last.q
          /\ deals[last.deal].remaining_quantity = deals[last.deal].quantity
  /\ \A d \in DOMAIN deals : deals[d].status \in {"active", "sold", "expired"}

\* a deal has just been created while an earlier deal is stored as sold
\* or expired
C18_Witness ==
  /\ last.op = "createDeal" /\ last.ok
  /\ last.deal \in DOMAIN deals
  /\ deals[last.deal].remaining_quantity = MaxQty
  /\ \E d \in DOMAIN deals : deals[d].status \in {"sold", "expired"}

(***************************************************************************)
(* Distance properties.                                                    *)
(***************************************************************************)

\* C19: for every pair of points a, b the distance from a to b equals the
\* distance from b to a, and the distance from a to a is 0, with the
\* client's calculateDistance and with the database's calculate_distance.
C19_HaversineSymmetric ==
  dist.by # "none" =>
    /\ FEq(dist.ab, dist.ba)
    /\ FEq(dist.aa, FZero)

(***************************************************************************)
(* One-time passwords.                                                     *)
(***************************************************************************)

\* C12: a generated OTP verifies at most once: no two verifyOTP calls,
\* whether one after the other or overlapping, both answer success for the
\* same stored otps row.
C12_VerifiesOnce ==
  \A s \in OtpSessions : \A t \in OtpSessions \ {s} :
    ~ /\ otpc[s].op = "verifyOTP" /\ otpc[s].pc = "idle" /\ otpc[s].success
      /\ otpc[t].op = "verifyOTP" /\ otpc[t].pc = "idle" /\ otpc[t].success
      /\ otpc[s].rec.id = otpc[t].rec.id

\* C13: a verifyOTP call that has answered after fetching a row: when more
\* than 5 minutes lay between the row's creation and the check, the answer
\* is the failure 'OTP has expired...' and the row is gone; when at most 5
\* minutes lay between them and the entered code is the row's code, the
\* answer is success.
C13_FiveMinuteWindow ==
  \A s \in OtpSessions :
    LET c == otpc[s]
        elapsedMs == (c.at - c.rec.created_at) * TimeUnitMs
    IN (c.op = "verifyOTP" /\ c.pc = "idle" /\ c.rec # NoRec) =>
         /\ elapsedMs > 300000 =>
              /\ ~c.success
              /\ c.message = "OTP has expired. Please request a new OTP."
              /\ \A r \in otps.rows : r.id # c.rec.id
         /\ (elapsedMs <= 300000 /\ c.otp = c.rec.otp) =>
              /\ c.success
              /\ c.message = "OTP verified successfully!"

\* C13 witness: one call with the right code answered 'expired' on a row
\* older than 5 minutes.
C13_Witness ==
  \E s \in OtpSessions :
    LET c == otpc[s]
    IN /\ c.op = "verifyOTP" /\ c.pc = "idle" /\ c.rec # NoRec
       /\ c.otp = c.rec.otp
       /\ (c.at - c.rec.created_at) * TimeUnitMs > 300000
       /\ c.message = "OTP has expired. Please request a new OTP."

(***************************************************************************)
(* Answers of the service calls.                                           *)
(***************************************************************************)

\* C16: whatever a service call has handed back is an object that carries
\* both a success flag and a message.
C16_UniformShape ==
  /\ last.op # "none" => last.ok \in BOOLEAN
  /\ ret.op # "none" =>
       /\ ret.value.kind = "object"
       /\ {"success", "message"} \subseteq ret.value.keys

(***************************************************************************)
(* The change feed.                                                        *)
(***************************************************************************)

\* the list a vendor screen shows right after a query that found nothing to
\* sweep
VendorListNow(s) ==
  {Snap(d, deals[d]) : d \in {x \in DOMAIN deals :
       /\ deals[x].vendor_id = SessionVendor[s]
       /\ deals[x].status = "active"
       /\ ~(deals[x].expiry_time < now)}}

\* C17: whenever a change event on deals is delivered to a mounted,
\* subscribed list screen, that screen queries the backend again: the
\* vendor screen shows its current active deals or has begun its sweep, and
\* the buyer screen, once it has a location, shows what getNearbyDeals
\* answers for that location at that moment.
C17_FeedRefetch ==
  [][/\ ("vendor" \in DOMAIN feed /\ feed'["vendor"] < feed["vendor"]) =>
          \A s \in VendorSessions :
            \/ vend'[s].lpc = "sweeping"
            \/ vend'[s].list = VendorListNow(s)
     /\ ("buyer" \in DOMAIN feed /\ feed'["buyer"] < feed["buyer"]
           /\ bscreen.userLocation # NoLocation) =>
          bscreen'.deals =
            getNearbyDeals(deals, bscreen.userLocation, DefaultRadius, now).rows
    ]_vars

(***************************************************************************)
(* The location of the nearby query.                                       *)
(***************************************************************************)

\* C21: when the buyer has a saved profile location, every nearby-deals
\* query the buyer screen has issued, the one of its first load included,
\* was issued around that location.
C21_ProfileLocationFirst ==
  (bscreen.saved # NoLocation /\ bscreen.queried # NoLocation) =>
    bscreen.queried = bscreen.saved

\* C22: when a sendOTP call completes successfully, the otps rows of its
\* phone number are exactly the one row it has just inserted.
C22_OneRecordAfterSend ==
  [][\A s \in OtpSessions :
       (otpc[s].pc = "insert" /\ otpc'[s].pc = "idle" /\ otpc'[s].success) =>
         OtpsOf(otps'.rows, otpc'[s].phone) = {otpc'[s].rec}
    ]_vars

(***************************************************************************)
(* Vendor analytics properties.                                            *)
(***************************************************************************)

\* the collected or reserved orders created on day ds on the deals of
\* vendor v
OwnOrdersOn(v, ds) ==
  {o \in BagToSet(orders) :
     /\ o.created_at = ds
     /\ o.status \in {"collected", "reserved"}
     /\ o.deal_id \in DOMAIN deals
     /\ deals[o.deal_id].vendor_id = v}

RECURSIVE OwnCount(_)
OwnCount(S) ==
  IF S = {} THEN 0
  ELSE LET o == CHOOSE x \in S : TRUE
       IN CopiesIn(o, orders) + OwnCount(S \ {o})

RECURSIVE OwnRevenue(_)
OwnRevenue(S) ==
  IF S = {} THEN 0
  ELSE LET o == CHOOSE x \in S : TRUE
       IN CopiesIn(o, orders) * deals[o.deal_id].discounted_price
            + OwnRevenue(S \ {o})

\* C23: every row returned by get_vendor_daily_revenue(v, n) reports, for
\* its day, the number of collected or reserved orders created that day on
\* the deals of v as order_count and the sum of those deals' discounted
\* prices as revenue; orders on other vendors' deals are not counted.
C23_OnlyOwnVendor ==
  [][(ret'.op = "get_vendor_daily_revenue" /\ UNCHANGED <<now, deals, orders>>) =>
       \A row \in ret'.value :
         /\ row.order_count = OwnCount(OwnOrdersOn(ret'.arg[1], row.date))
         /\ row.revenue = OwnRevenue(OwnOrdersOn(ret'.arg[1], row.date))
    ]_vars

(***************************************************************************)
(* The existence check of createOrder.                                     *)
(***************************************************************************)

\* C24: a createOrder call whose existence check runs while the buyer holds
\* at least one order for the deal (one, or two or more) answers 'You have
\* already reserved this deal' and inserts nothing: it does not go on to
\* the insert.
C24_RefusedWhenAnyOrderExists ==
  [][\A s \in BuyerSessions : \A d \in DealIds :
       (/\ buy[s].pc = "idle"
        /\ buy'[s] # buy[s]
        /\ buy'[s].deal = d
        /\ OrdersOf(orders, SessionBuyer[s], d) >= 1)
         => /\ buy'[s].pc = "idle"
            /\ buy'[s].res = "dup"
            /\ last'.message = "You have already reserved this deal"
            /\ orders' = orders
    ]_vars

(***************************************************************************)
(* Reservation from the deal details screen.                               *)
(***************************************************************************)

\* C25: whenever createOrder, started from the Reserve button, inserts an
\* order, the deal is stored active and its expiry_time has not passed at
\* the moment of the insert.
C25_InsertOnlyWhileReservable ==
  [][\A s \in BuyerSessions :
       (/\ buy[s].pc = "insert"
        /\ buy'[s].pc = "idle"
        /\ buy'[s].res = "ok")
         => canReserve(deals[buy[s].deal], now)
    ]_vars

(***************************************************************************)
(* Prices of a posted deal.                                                *)
(***************************************************************************)

\* C26: for every form the screen accepts (quantity >= 1, discount_percent
\* from 0 to 100, original_price > 0, expiry in the future) the row
\* createDeal builds satisfies the constraints of the deals table, so that
\* createDeal does not answer 'Failed to create deal'.
C26_ValidFormIsStorable ==
  (ret.op = "createDeal" /\ validateForm(ret.arg)) =>
    /\ ret.value.success
    /\ PricedRowOK(PricedRow(ret.arg))

(***************************************************************************)
(* Deals of a vendor who works on two devices.                             *)
(***************************************************************************)

\* C27: in every state reached through createDeal, updateDealQuantity,
\* mark-as-sold, the expiry sweep and deleteDeal, interleaved in any way
\* across two devices, no stored deal has remaining_quantity 0 and status
\* active.
C27_SoldOutNotActive ==
  \A d \in DOMAIN deals :
    ~(deals[d].remaining_quantity = 0 /\ deals[d].status = "active")

\* a deal was set to 0 and sold from the first device's dialog while an
\* update of it to a positive quantity from the second device is between
\* its fetch and its write
C27_Witness ==
  /\ call.pc = "write" /\ call.q > 0
  /\ call.deal \in DOMAIN deals
  /\ deals[call.deal].remaining_quantity = 0
  /\ deals[call.deal].status = "sold"
  /\ last.op = "updateDealQuantity" /\ last.ok /\ last.q = 0
  /\ last.deal = call.deal

(***************************************************************************)
(* Overlapping loads of the buyer's list.                                  *)
(***************************************************************************)

\* C28: once every load the screen started has been answered, the list it
\* displays is the answer to the query that was sent last, whatever order
\* the answers arrived in.
C28_LastIssuedWins ==
  (bscreen.issued > 0 /\ bscreen.inflight = {}) =>
    bscreen.deals = bscreen.latest

====
